---- MODULE Spec2Model ----
(***************************************************************************)
(* A model of the design-tree transformation passes of figma-mcp:          *)
(* style interning, the node transformer and its tree walk, the position   *)
(* restore pass and the metadata cleanup (utils/transformFigmaJson.js),    *)
(* the colour normalisers (optimizeColors, rgbaToHex), the gradient        *)
(* conversion and the colour palette extractor (utils/findColorItems.js),  *)
(* the relative-positioning pass (utils/convertToRelativePositioning.js),  *)
(* the typography extractor (unnamed/part_001) and the POST /figmaDesign   *)
(* handler of the web server (unnamed/part_000, index.js).                 *)
(*                                                                         *)
(* JavaScript values are modelled as follows.                              *)
(*   - an object is a record; a property that is absent is a field that is *)
(*     not in the record's DOMAIN;                                         *)
(*   - null is JsNull and a number where an object is expected is JsNum;   *)
(*   - a number with a fractional part (a colour channel, an alpha, an     *)
(*     opacity, a gradient stop position) is the integer n standing for    *)
(*     n / Scale;                                                          *)
(*   - a style object keeps its insertion order: it is a sequence of       *)
(*     <<key, value>> pairs with distinct keys, the value tagged as a      *)
(*     string (Str) or a number (Num), as JSON.stringify tells them apart; *)
(*   - a StyleDict is a function from StyleIDs to style objects.           *)
(***************************************************************************)
EXTENDS Integers, Sequences, FiniteSets, TLC

VARIABLES
    pc,         \* which specification's operation ran last
    styles,     \* SpecIntern: the dictionary the interner mutates in place
    internLog,  \* SpecIntern: the <<style object, returned id>> of each intern call
    rawData,    \* Spec: the payload handed to transformFigmaJson
    result,     \* Spec: what the call returned (or that it threw)
    prevCall,   \* SpecCalls: the payload and result of the call before this one
    colorCall,  \* SpecColor: the colour and options handed to the normalisers
    hexOut,     \* SpecColor: what each normaliser returned for it
    fill,       \* SpecGradient: the fill handed to gradientToCss
    css,        \* SpecGradient: what gradientToCss returned
    heap,          \* the objects a cleanup pass can reach, by address
    input,         \* the argument of a cleanup or extraction pass
    cleanOptions,  \* the options argument of removeMetadata
    optimizedData, \* SpecRestore: the processed tree the restore pass works on
    requests,      \* SpecServer: where each POST /figmaDesign request stands
    downloads      \* SpecServer: the files of the figma-downloader directory

vars == <<pc, styles, internLog, rawData, result, prevCall, colorCall, hexOut, fill, css,
          heap, input, cleanOptions, optimizedData, requests, downloads>>

--------------------------------------------------------------------------
(* JavaScript values *)

JsNull == [js |-> "null"]
JsNum == [js |-> "number"]
Undefined == [js |-> "undefined"]

IsObject(v) == "js" \notin DOMAIN v

Has(o, f) == f \in DOMAIN o

\* No request was received and the download directory is empty.
NoServer == requests = <<>> /\ downloads = <<>>

Str(s) == [str |-> s]
Num(n) == [num |-> n]

\* Fixed-point resolution of the fractional numbers: n stands for n / Scale.
Scale == 1000

ToSet(seq) == {seq[i] : i \in 1..Len(seq)}

KeysOf(styleData) == {styleData[i][1] : i \in 1..Len(styleData)}

ValueOf(styleData, k) ==
    LET i == CHOOSE j \in 1..Len(styleData) : styleData[j][1] = k
    IN  styleData[i][2]

\* obj[key] = value on a style object: a new key is appended, an existing one
\* keeps its position and takes the new value.
SetKey(styleData, k, val) ==
    IF k \in KeysOf(styleData)
    THEN [i \in 1..Len(styleData) |->
            IF styleData[i][1] = k THEN <<k, val>> ELSE styleData[i]]
    ELSE Append(styleData, <<k, val>>)

--------------------------------------------------------------------------
(* Style interning: utils/transformFigmaJson.js, styleHash and the          *)
(* "generate style ID" tail shared by the three style processors.           *)

\* The property names a style object can carry, in the order String sort
\* (UTF-16 code units) puts them.
KeyOrder ==
    << "alignItems", "backgroundColor", "borderRadius", "color", "display",
       "flexDirection", "fontFamily", "fontSize", "fontWeight", "gap",
       "height", "justifyContent", "letterSpacing", "lineHeight", "opacity",
       "paddingBottom", "paddingLeft", "paddingRight", "paddingTop",
       "textAlign", "width" >>

\* Object.keys(styleData).sort()
SortedKeys(styleData) == SelectSeq(KeyOrder, LAMBDA k : k \in KeysOf(styleData))

\* Object.keys(styleData): insertion order.
InsertionKeys(styleData) == [i \in 1..Len(styleData) |-> styleData[i][1]]

\* JSON.stringify(styleData, keyList): the listed keys, in the list's order,
\* each with its (typed) value.
JSONstringify(styleData, keyList) ==
    [i \in 1..Len(keyList) |-> <<keyList[i], ValueOf(styleData, keyList[i])>>]

\* crypto.createHash("md5").update(str).digest("hex"); the digest is modelled
\* as collision-free: distinct strings have distinct digests.
md5(str) == [md5 |-> str]

\* A hash that serialises the keys in insertion order (no sort).
styleHashUnsorted(styleData) == md5(JSONstringify(styleData, InsertionKeys(styleData)))

styleHash(styleData) == md5(JSONstringify(styleData, SortedKeys(styleData)))

\* if (Object.keys(style).length > 0) { id = styleHash(style);
\*   if (!styles[id]) styles[id] = style; return id; } return null;
InternStyle(styleData, dict) ==
    IF Len(styleData) > 0
    THEN LET styleId == styleHash(styleData)
         IN  [id |-> styleId,
              styles |-> IF styleId \in DOMAIN dict
                         THEN dict
                         ELSE dict @@ (styleId :> styleData)]
    ELSE [id |-> JsNull, styles |-> dict]

EmptyDict == <<>>

--------------------------------------------------------------------------
(* SpecIntern: a dictionary and a sequence of intern calls on it. *)

MaxInterns == 3

InternKeys == {"display", "width"}
InternValues == {Str("10px"), Str("flex")}

\* Style objects over InternKeys, in every insertion order, and the empty one.
StyleObjects ==
    {<<>>}
    \cup {<< <<k, v>> >> : k \in InternKeys, v \in InternValues}
    \cup {s \in {<< <<k1, v1>>, <<k2, v2>> >> :
                    k1 \in InternKeys, k2 \in InternKeys,
                    v1 \in InternValues, v2 \in InternValues} :
            s[1][1] # s[2][1]}

IdlePasses ==
    heap = <<>> /\ input = JsNull /\ cleanOptions = JsNull /\ optimizedData = JsNull

Idle ==
    /\ rawData = JsNull /\ result = JsNull /\ prevCall = JsNull
    /\ colorCall = JsNull /\ hexOut = JsNull /\ fill = JsNull /\ css = JsNull
    /\ IdlePasses

InitIntern ==
    /\ NoServer
    /\ pc = "intern"
    /\ styles = EmptyDict
    /\ internLog = <<>>
    /\ Idle

Intern ==
    /\ pc = "intern"
    /\ Len(internLog) < MaxInterns
    /\ \E s \in StyleObjects :
        LET r == InternStyle(s, styles)
        IN  /\ styles' = r.styles
            /\ internLog' = Append(internLog, [style |-> s, id |-> r.id])
    /\ UNCHANGED <<requests, downloads, pc, rawData, result, prevCall, colorCall, hexOut, fill, css,
                 heap, input, cleanOptions, optimizedData>>

NextIntern == Intern

SpecIntern == InitIntern /\ [][NextIntern]_vars

SameContent(a, b) == ToSet(a) = ToSet(b)

LoggedContents == {ToSet(internLog[i].style) : i \in 1..Len(internLog)} \ {{}}

\* C1: two non-empty style objects with the same key/value pairs, in any
\* insertion order, get the same StyleID from the same dictionary, and the
\* dictionary holds exactly one entry per distinct content interned so far
\* (interning a content again adds none).
C1_ContentAddressed ==
    /\ \A i, j \in 1..Len(internLog) :
          (/\ Len(internLog[i].style) > 0
           /\ SameContent(internLog[i].style, internLog[j].style))
          => internLog[i].id = internLog[j].id
    /\ \A i \in 1..Len(internLog) :
          Len(internLog[i].style) > 0 => internLog[i].id \in DOMAIN styles
    /\ \A a, b \in DOMAIN styles : SameContent(styles[a], styles[b]) => a = b
    /\ Cardinality(DOMAIN styles) = Cardinality(LoggedContents)

\* The same content interned twice, under two key orders: one id, one entry.
C1_Witness ==
    /\ Len(internLog) = 2
    /\ Len(internLog[1].style) = 2
    /\ internLog[1].style # internLog[2].style
    /\ SameContent(internLog[1].style, internLog[2].style)
    /\ internLog[1].id = internLog[2].id
    /\ Cardinality(DOMAIN styles) = 1

--------------------------------------------------------------------------
(* Colour normalisers *)

HexDigits ==
    <<"0", "1", "2", "3", "4", "5", "6", "7", "8", "9", "a", "b", "c", "d", "e", "f">>

\* Number.prototype.toString(16) of a non-negative integer, as its characters.
RECURSIVE toString16(_)
toString16(n) ==
    IF n < 16
    THEN <<HexDigits[n + 1]>>
    ELSE toString16(n \div 16) \o <<HexDigits[(n % 16) + 1]>>

\* String.prototype.padStart(2, "0")
padStart2(chars) == IF Len(chars) < 2 THEN <<"0">> \o chars ELSE chars

\* Math.floor(x * 255) for the fraction x = n / Scale.
Floor255(n) == (n * 255) \div Scale

\* Math.floor(rgba.c * 255).toString(16).padStart(2, "0"); an absent channel
\* makes the product NaN, which prints as "NaN".
ChannelHex(rgba, c) ==
    IF Has(rgba, c) THEN padStart2(toString16(Floor255(rgba[c]))) ELSE <<"N", "a", "N">>

\* Math.floor((rgba.c || 0) * 255).toString(16).padStart(2, "0")
ChannelHexOrZero(rgba, c) ==
    padStart2(toString16(Floor255(IF Has(rgba, c) THEN rgba[c] ELSE 0)))

Black == <<"#", "0", "0", "0", "0", "0", "0">>
Transparent == <<"#", "0", "0", "0", "0", "0", "0", "0", "0">>

\* utils/transformFigmaJson.js rgbaToHex, as the characters of the result.
rgbaToHexChars(rgba) ==
    IF ~IsObject(rgba)
    THEN Black
    ELSE <<"#">> \o ChannelHex(rgba, "r") \o ChannelHex(rgba, "g") \o ChannelHex(rgba, "b")

\* The default of the minAlpha option is 0.01 = 1 / MinAlphaDen.
MinAlphaDen == 100

\* a < minAlpha, for a = n / Scale and minAlpha = 1 / den.
BelowMinAlpha(n, den) == n * den < Scale

\* The optimizeColors normaliser with the alpha byte dropped.
optimizeColors_rgbaToHexNoAlpha(rgba, options) ==
    IF ~IsObject(rgba)
    THEN Black
    ELSE <<"#">> \o ChannelHexOrZero(rgba, "r") \o ChannelHexOrZero(rgba, "g")
                 \o ChannelHexOrZero(rgba, "b")

\* optimizeColors' rgbaToHex, closed over options.convertTransparent and
\* options.minAlpha (= 1 / options.minAlphaDen).
optimizeColors_rgbaToHex(rgba, options) ==
    IF ~IsObject(rgba)
    THEN Black
    ELSE LET a == IF Has(rgba, "a") THEN rgba.a ELSE Scale
             rgb == ChannelHexOrZero(rgba, "r") \o ChannelHexOrZero(rgba, "g")
                        \o ChannelHexOrZero(rgba, "b")
         IN  IF BelowMinAlpha(a, options.minAlphaDen) /\ options.convertTransparent
             THEN Transparent
             ELSE IF a = Scale
                  THEN <<"#">> \o rgb
                  ELSE <<"#">> \o rgb \o padStart2(toString16(Floor255(a)))

\* The characters of a template literal, joined into the string.
RECURSIVE JoinChars(_)
JoinChars(chars) ==
    IF chars = <<>> THEN "" ELSE Head(chars) \o JoinChars(Tail(chars))

rgbaToHex(rgba) == JoinChars(rgbaToHexChars(rgba))

--------------------------------------------------------------------------
(* SpecColor: one colour through both normalisers. *)

ChannelValues == {0, 4, Scale \div 2, Scale - 1, Scale}
AlphaValues == {0, Scale \div 200, Scale \div 100 - 1, Scale \div 100, Scale \div 2, Scale - 1, Scale}

ColorObjects ==
    [r : ChannelValues, g : ChannelValues, b : ChannelValues]
    \cup [r : ChannelValues, g : ChannelValues, b : ChannelValues, a : AlphaValues]

ColorInputs == ColorObjects \cup {JsNull, JsNum}

ColorOptions == [convertTransparent : BOOLEAN, minAlphaDen : {MinAlphaDen, 2}]

InitColor ==
    /\ NoServer
    /\ pc = "color"
    /\ colorCall \in [rgba : ColorInputs, options : ColorOptions]
    /\ hexOut = JsNull
    /\ styles = EmptyDict /\ internLog = <<>>
    /\ rawData = JsNull /\ result = JsNull /\ prevCall = JsNull
    /\ fill = JsNull /\ css = JsNull
    /\ IdlePasses

Normalize ==
    /\ pc = "color"
    /\ hexOut = JsNull
    /\ hexOut' = [optimize |-> optimizeColors_rgbaToHex(colorCall.rgba, colorCall.options),
                  transformer |-> rgbaToHexChars(colorCall.rgba)]
    /\ UNCHANGED <<requests, downloads, pc, styles, internLog, rawData, result, prevCall, colorCall, fill, css,
                 heap, input, cleanOptions, optimizedData>>

NextColor == Normalize

SpecColor == InitColor /\ [][NextColor]_vars

HexDigitValue(ch) == (CHOOSE i \in 1..16 : HexDigits[i] = ch) - 1

IsHexDigit(ch) == \E i \in 1..16 : HexDigits[i] = ch

\* The byte that the two characters at positions i, i + 1 of a hex string encode.
ByteAt(chars, i) == 16 * HexDigitValue(chars[i]) + HexDigitValue(chars[i + 1])

\* '#' followed by exactly n hex digits.
HashAndDigits(chars, n) ==
    /\ Len(chars) = n + 1
    /\ chars[1] = "#"
    /\ \A i \in 2..(n + 1) : IsHexDigit(chars[i])

\* '#' and the three channel bytes floor(channel * 255).
EncodesChannels(chars, c) ==
    /\ ByteAt(chars, 2) = (c.r * 255) \div Scale
    /\ ByteAt(chars, 4) = (c.g * 255) \div Scale
    /\ ByteAt(chars, 6) = (c.b * 255) \div Scale

AlphaOf(c) == IF Has(c, "a") THEN c.a ELSE Scale

\* The claim's toHex contract for one normaliser's output on colorCall.
ToHexContract(chars) ==
    LET c == colorCall.rgba
        o == colorCall.options
    IN  IF ~IsObject(c)
        THEN chars = Black
        ELSE IF o.convertTransparent /\ BelowMinAlpha(AlphaOf(c), o.minAlphaDen)
             THEN chars = Transparent
             ELSE IF AlphaOf(c) = Scale
                  THEN HashAndDigits(chars, 6) /\ EncodesChannels(chars, c)
                  ELSE /\ HashAndDigits(chars, 8)
                       /\ EncodesChannels(chars, c)
                       /\ ByteAt(chars, 8) = (AlphaOf(c) * 255) \div Scale

\* C9 as written: both the optimizeColors normaliser and the one the node
\* transformer invokes yield #RRGGBB for a absent or 1, #RRGGBBAA with
\* AA = floor(a * 255) otherwise, the transparent sentinel below the
\* threshold, and #000000 for a null or non-object input.
C9_BothNormalisers ==
    hexOut # JsNull => ToHexContract(hexOut.optimize) /\ ToHexContract(hexOut.transformer)

\* C9 amended: the optimizeColors normaliser meets that contract (r, g, b, a
\* in [0,1]; the sentinel applies when convertTransparent is on); the node
\* transformer's rgbaToHex ignores alpha and always yields '#' and the six
\* digits of floor(channel * 255); both yield #000000 for null or a non-object.
C9_ToHex ==
    hexOut # JsNull =>
        /\ ToHexContract(hexOut.optimize)
        /\ IF IsObject(colorCall.rgba)
           THEN /\ HashAndDigits(hexOut.transformer, 6)
                /\ EncodesChannels(hexOut.transformer, colorCall.rgba)
           ELSE hexOut.transformer = Black

\* toHex({r:0,g:0,b:1,a:0.5}) under the default options: eight digits, the
\* last two decoding to 127; the transformer's normaliser gives six.
C9_Witness ==
    /\ hexOut # JsNull
    /\ IsObject(colorCall.rgba)
    /\ Has(colorCall.rgba, "a")
    /\ colorCall.rgba.a = Scale \div 2
    /\ colorCall.rgba.b = Scale
    /\ colorCall.options = [convertTransparent |-> TRUE, minAlphaDen |-> MinAlphaDen]
    /\ Len(hexOut.optimize) = 9
    /\ ByteAt(hexOut.optimize, 8) = 127
    /\ Len(hexOut.transformer) = 7

--------------------------------------------------------------------------
(* Gradient conversion: utils/findColorItems.js gradientToCss *)

\* utils/findColorItems.js rgbaToHex (the copy gradientToCss calls).
findColorItems_rgbaToHex(rgba) == JoinChars(rgbaToHexChars(rgba))

\* typeof v === 'number', for a coordinate that may be absent.
IsNumberField(o, f) == Has(o, f) /\ Has(o[f], "num")

\* A truthy handle with numeric x and y.
NumericPoint(h) == IsObject(h) /\ IsNumberField(h, "x") /\ IsNumberField(h, "y")

\* Math.round(x * 100) for the fraction x = n / Scale (half rounds up).
RoundPercent(n) == (2 * n * 100 + Scale) \div (2 * Scale)

\* `${hex} ${position}%` of one stop.
StopCss(stop) ==
    findColorItems_rgbaToHex(IF Has(stop, "color") THEN stop.color ELSE Undefined)
        \o " "
        \o (IF Has(stop, "position") THEN ToString(RoundPercent(stop.position)) ELSE "NaN")
        \o "%"

\* fill.gradientStops.map(...).join(', ')
RECURSIVE StopsCss(_)
StopsCss(stops) ==
    IF Len(stops) = 1
    THEN StopCss(stops[1])
    ELSE StopCss(stops[1]) \o ", " \o StopsCss(Tail(stops))

\* Math.atan2(dy, dx) * 180 / Math.PI, exact on the eight compass directions
\* (dx = 0, dy = 0 or |dx| = |dy|), which are the directions between handles
\* whose coordinates are 0 or 1; atan2(0, 0) is 0.
Atan2Degrees(dy, dx) ==
    CASE dy = 0 /\ dx >= 0 -> 0
      [] dy = 0 /\ dx < 0  -> 180
      [] dx = 0 /\ dy > 0  -> 90
      [] dx = 0 /\ dy < 0  -> 0 - 90
      [] dx > 0 /\ dy > 0  -> 45
      [] dx < 0 /\ dy > 0  -> 135
      [] dx > 0 /\ dy < 0  -> 0 - 45
      [] dx < 0 /\ dy < 0  -> 0 - 135

\* The conversion without the quarter turn to CSS's convention.
CssAngleNoQuarterTurn(start, end) ==
    (Atan2Degrees(end.y.num - start.y.num, end.x.num - start.x.num) + 360) % 360

\* degrees = atan2(dy, dx) * 180 / PI + 90; angle = (degrees + 360) % 360
CssAngle(start, end) ==
    (Atan2Degrees(end.y.num - start.y.num, end.x.num - start.x.num) + 90 + 360) % 360

HandlesOf(f) ==
    IF Has(f, "gradientHandlePositions") THEN f.gradientHandlePositions ELSE <<>>

\* case 'GRADIENT_LINEAR': the angle, 180 unless the first two handles are
\* points with numeric coordinates.
LinearAngle(f) ==
    LET hs == HandlesOf(f)
    IN  IF Len(hs) >= 2 /\ NumericPoint(hs[1]) /\ NumericPoint(hs[2])
        THEN CssAngle(hs[1], hs[2])
        ELSE 180

\* `${Math.round(center.x * 100)}% ${Math.round(center.y * 100)}%`
CenterCss(center) ==
    ToString(center.x.num * 100) \o "% " \o ToString(center.y.num * 100) \o "%"

\* case 'GRADIENT_RADIAL': needs three handles, a truthy second one and a
\* numeric first one.
RadialPosition(f) ==
    LET hs == HandlesOf(f)
    IN  IF Len(hs) >= 3 /\ IsObject(hs[2]) /\ NumericPoint(hs[1])
        THEN "circle at " \o CenterCss(hs[1])
        ELSE "circle"

\* case 'GRADIENT_ANGULAR'
AngularPosition(f) ==
    LET hs == HandlesOf(f)
    IN  IF Len(hs) >= 1 /\ NumericPoint(hs[1])
        THEN "from 0deg at " \o CenterCss(hs[1])
        ELSE "from 0deg at center"

\* case 'GRADIENT_DIAMOND'
DiamondPosition(f) ==
    LET hs == HandlesOf(f)
    IN  IF Len(hs) >= 1 /\ NumericPoint(hs[1])
        THEN "circle at " \o CenterCss(hs[1])
        ELSE "circle"

\* gradientToCss, as the parts of the template literal it returns: the CSS
\* function, its first argument and the stop list; null without stops.
gradientToCssParts(f) ==
    IF ~Has(f, "gradientStops") \/ Len(f.gradientStops) = 0
    THEN JsNull
    ELSE LET stops == StopsCss(f.gradientStops)
             gradientType == IF Has(f, "type") THEN f.type ELSE "GRADIENT_LINEAR"
         IN  CASE gradientType = "GRADIENT_LINEAR" ->
                    [fn |-> "linear-gradient", angle |-> LinearAngle(f),
                     first |-> ToString(LinearAngle(f)) \o "deg", stops |-> stops]
               [] gradientType = "GRADIENT_RADIAL" ->
                    [fn |-> "radial-gradient", first |-> RadialPosition(f), stops |-> stops]
               [] gradientType = "GRADIENT_ANGULAR" ->
                    [fn |-> "conic-gradient", first |-> AngularPosition(f), stops |-> stops]
               [] gradientType = "GRADIENT_DIAMOND" ->
                    [fn |-> "radial-gradient", first |-> DiamondPosition(f), stops |-> stops]
               [] OTHER ->
                    [fn |-> "linear-gradient", first |-> "180deg", stops |-> stops]

\* The string gradientToCss returns: `${fn}(${first}, ${stops})`, or null.
gradientToCss(f) ==
    LET p == gradientToCssParts(f)
    IN  IF p = JsNull
        THEN JsNull
        ELSE [parts |-> p, text |-> p.fn \o "(" \o p.first \o ", " \o p.stops \o ")"]

--------------------------------------------------------------------------
(* SpecGradient: one fill through gradientToCss. *)

MaxHandles == 3

Red == [r |-> Scale, g |-> 0, b |-> 0, a |-> Scale]
Blue == [r |-> 0, g |-> 0, b |-> Scale, a |-> Scale \div 2]

HandleValues ==
    [x : {Num(0), Num(1)}, y : {Num(0), Num(1)}]
    \cup {JsNull, [y |-> Num(1)], [x |-> Str("0"), y |-> Num(1)]}

HandleLists == UNION {[1..n -> HandleValues] : n \in 0..MaxHandles}

GradientTypes ==
    {"GRADIENT_LINEAR", "GRADIENT_RADIAL", "GRADIENT_ANGULAR", "GRADIENT_DIAMOND",
     "LINEAR", "SOLID"}

StopLists ==
    { <<>>,
      << [color |-> Red, position |-> 0] >>,
      << [color |-> Red, position |-> 0], [color |-> Blue, position |-> Scale] >>,
      << [position |-> Scale \div 2], [color |-> Blue] >> }

\* A fill: each of type, gradientStops and gradientHandlePositions present or not.
WithField(S, f, V) == S \cup {o @@ (f :> v) : o \in S, v \in V}

GradientFills ==
    WithField(WithField(WithField({[kind |-> "fill"]}, "type", GradientTypes),
                        "gradientStops", StopLists),
              "gradientHandlePositions", HandleLists)

InitGradient ==
    /\ NoServer
    /\ pc = "gradient"
    /\ fill \in GradientFills
    /\ css = Undefined
    /\ styles = EmptyDict /\ internLog = <<>>
    /\ rawData = JsNull /\ result = JsNull /\ prevCall = JsNull
    /\ colorCall = JsNull /\ hexOut = JsNull
    /\ IdlePasses

Convert ==
    /\ pc = "gradient"
    /\ css = Undefined
    /\ css' = gradientToCss(fill)
    /\ UNCHANGED <<requests, downloads, pc, styles, internLog, rawData, result, prevCall, colorCall, hexOut, fill,
                 heap, input, cleanOptions, optimizedData>>

NextGradient == Convert

SpecGradient == InitGradient /\ [][NextGradient]_vars

HasStops(f) == Has(f, "gradientStops") /\ Len(f.gradientStops) > 0

IsLinear(f) == ~Has(f, "type") \/ f.type = "GRADIENT_LINEAR"

\* The first two handles are points with numeric coordinates.
TwoNumericHandles(f) ==
    /\ Has(f, "gradientHandlePositions")
    /\ Len(f.gradientHandlePositions) >= 2
    /\ NumericPoint(f.gradientHandlePositions[1])
    /\ NumericPoint(f.gradientHandlePositions[2])

Dx(f) == f.gradientHandlePositions[2].x.num - f.gradientHandlePositions[1].x.num
Dy(f) == f.gradientHandlePositions[2].y.num - f.gradientHandlePositions[1].y.num

\* C10: for a fill with a non-empty stop list, a linear gradient running
\* straight down yields 180deg, right 90deg, up 0deg, left 270deg, its angle
\* always in [0,360); fewer than two handles or a handle without numeric x/y
\* yields 180deg; radial and diamond yield radial-gradient, angular yields
\* conic-gradient, and any other type yields linear-gradient(180deg, ...).
C10_Gradient ==
    (css # Undefined /\ HasStops(fill)) =>
        /\ css # JsNull
        /\ IsLinear(fill) =>
              /\ css.parts.fn = "linear-gradient"
              /\ css.parts.angle >= 0 /\ css.parts.angle < 360
              /\ IF TwoNumericHandles(fill)
                 THEN /\ (Dx(fill) = 0 /\ Dy(fill) > 0) => css.parts.first = "180deg"
                      /\ (Dx(fill) > 0 /\ Dy(fill) = 0) => css.parts.first = "90deg"
                      /\ (Dx(fill) = 0 /\ Dy(fill) < 0) => css.parts.first = "0deg"
                      /\ (Dx(fill) < 0 /\ Dy(fill) = 0) => css.parts.first = "270deg"
                 ELSE css.parts.first = "180deg"
        /\ (Has(fill, "type") /\ fill.type \in {"GRADIENT_RADIAL", "GRADIENT_DIAMOND"})
              => css.parts.fn = "radial-gradient"
        /\ (Has(fill, "type") /\ fill.type = "GRADIENT_ANGULAR")
              => css.parts.fn = "conic-gradient"
        /\ (Has(fill, "type") /\ fill.type \notin
                {"GRADIENT_LINEAR", "GRADIENT_RADIAL", "GRADIENT_ANGULAR", "GRADIENT_DIAMOND"})
              => /\ css.parts.fn = "linear-gradient"
                 /\ css.parts.first = "180deg"

\* A linear gradient from (0,0) to (1,0), straight right, converted to 90deg.
C10_Witness ==
    /\ css # Undefined /\ css # JsNull
    /\ Has(fill, "type") /\ fill.type = "GRADIENT_LINEAR"
    /\ TwoNumericHandles(fill)
    /\ Dx(fill) = 1 /\ Dy(fill) = 0
    /\ fill.gradientStops = << [color |-> Red, position |-> 0] >>
    /\ css.text = "linear-gradient(90deg, #ff0000 0%)"

--------------------------------------------------------------------------
(* Node transformer: utils/transformFigmaJson.js, the exported              *)
(* transformFigmaJson (lines 1-462) and what it calls.                      *)

\* An argument as the callee's dynamic checks see it: an array, or an object
\* that is not one (Array.isArray).
AsArray(seq) == [array |-> seq]
AsObject(obj) == [object |-> obj]
IsArray(arg) == Has(arg, "array")

Px(n) == Str(ToString(n) \o "px")

figmaAlignToFlex(figmaVal) ==
    CASE figmaVal = "MIN" -> "flex-start"
      [] figmaVal = "CENTER" -> "center"
      [] figmaVal = "MAX" -> "flex-end"
      [] figmaVal = "SPACE_BETWEEN" -> "space-between"
      [] OTHER -> "flex-start"

\* The result of a style processor: the id it returns (or null), the
\* dictionary as it leaves it, and whether it raised a TypeError instead.
Returned(id, dict) == [id |-> id, styles |-> dict, threw |-> FALSE]
Raised(dict) == [id |-> JsNull, styles |-> dict, threw |-> TRUE]

getBorderRadius(rawNode) ==
    IF Has(rawNode, "cornerRadius")
    THEN Px(rawNode.cornerRadius)
    ELSE IF Has(rawNode, "rectangleCornerRadii")
         THEN LET r == rawNode.rectangleCornerRadii
              IN  IF r[1] = r[2] /\ r[2] = r[3] /\ r[3] = r[4]
                  THEN Px(r[1])
                  ELSE Str(ToString(r[1]) \o "px " \o ToString(r[2]) \o "px "
                           \o ToString(r[3]) \o "px " \o ToString(r[4]) \o "px")
         ELSE JsNull

getCornerSmoothing(rawNode) ==
    IF Has(rawNode, "cornerSmoothing") /\ rawNode.cornerSmoothing > 0
    THEN Px(rawNode.cornerSmoothing)
    ELSE JsNull

\* The style object getFillStyleId builds for a SOLID fill.
FillStyleData(f) ==
    << <<"backgroundColor", Str(rgbaToHex(f.color))>>,
       <<"opacity", Num(IF Has(f, "opacity") /\ f.opacity # 0 THEN f.opacity ELSE Scale)>> >>

\* getFillStyleId(fills, styles): fills is what the caller passed.
getFillStyleId(fills, dict) ==
    IF fills = Undefined \/ ~IsArray(fills) \/ Len(fills.array) = 0
    THEN Returned(JsNull, dict)
    ELSE LET f == fills.array[1]
         IN  IF ~IsObject(f)
             THEN Raised(dict)                       \* fills[0].visible of null
             ELSE IF Has(f, "visible") /\ f.visible = FALSE
                  THEN Returned(JsNull, dict)
                  ELSE IF Has(f, "type") /\ f.type = "SOLID" /\ Has(f, "color")
                       THEN LET r == InternStyle(FillStyleData(f), dict)
                            IN  Returned(r.id, r.styles)
                       ELSE Returned(JsNull, dict)

\* layoutStyle[prop] = `${rawNode[prop]}px` for a property that is defined.
WithPx(styleData, rawNode, prop, key) ==
    IF Has(rawNode, prop) THEN SetKey(styleData, key, Px(rawNode[prop])) ELSE styleData

\* The object getLayoutStyleId builds, property by property.
LayoutStyleData(rawNode) ==
    LET s0 == <<>>
        s1 == IF Has(rawNode, "layoutMode") /\ rawNode.layoutMode = "HORIZONTAL"
              THEN << <<"display", Str("flex")>>, <<"flexDirection", Str("row")>> >>
              ELSE IF Has(rawNode, "layoutMode") /\ rawNode.layoutMode = "VERTICAL"
                   THEN << <<"display", Str("flex")>>, <<"flexDirection", Str("column")>> >>
                   ELSE s0
        s2 == WithPx(WithPx(WithPx(WithPx(s1, rawNode, "paddingLeft", "paddingLeft"),
                                   rawNode, "paddingRight", "paddingRight"),
                            rawNode, "paddingTop", "paddingTop"),
                     rawNode, "paddingBottom", "paddingBottom")
        s3 == WithPx(s2, rawNode, "itemSpacing", "gap")
        s4 == IF Has(rawNode, "primaryAxisAlignItems") /\ rawNode.primaryAxisAlignItems # ""
              THEN SetKey(SetKey(s3, "justifyContent",
                                 Str(figmaAlignToFlex(rawNode.primaryAxisAlignItems))),
                          "alignItems",
                          Str(figmaAlignToFlex(IF Has(rawNode, "counterAxisAlignItems")
                                                  /\ rawNode.counterAxisAlignItems # ""
                                               THEN rawNode.counterAxisAlignItems
                                               ELSE "MIN")))
              ELSE s3
        s5 == IF Has(rawNode, "layoutMode") /\ rawNode.layoutMode # "" THEN s4 ELSE s0
        s6 == IF Has(rawNode, "absoluteBoundingBox")
              THEN SetKey(SetKey(s5, "width", Px(rawNode.absoluteBoundingBox.width)),
                          "height", Px(rawNode.absoluteBoundingBox.height))
              ELSE s5
        s7 == IF getBorderRadius(rawNode) # JsNull
              THEN SetKey(s6, "borderRadius", getBorderRadius(rawNode))
              ELSE s6
    IN  IF getCornerSmoothing(rawNode) # JsNull
        THEN SetKey(s7, "borderRadius", getCornerSmoothing(rawNode))
        ELSE s7

getLayoutStyleId(rawNode, dict) ==
    IF ~IsObject(rawNode)
    THEN Returned(JsNull, dict)
    ELSE LET r == InternStyle(LayoutStyleData(rawNode), dict)
         IN  Returned(r.id, r.styles)

\* The text properties getTextStyleId copies from rawNode.style, those that
\* are defined, in the order of its textProps table.
TextProps(nodeStyle) ==
    LET t1 == IF Has(nodeStyle, "fontFamily")
              THEN << <<"fontFamily", Str(nodeStyle.fontFamily)>> >> ELSE <<>>
        t2 == IF Has(nodeStyle, "fontWeight")
              THEN SetKey(t1, "fontWeight", Num(nodeStyle.fontWeight)) ELSE t1
        t3 == WithPx(t2, nodeStyle, "fontSize", "fontSize")
        t4 == WithPx(t3, nodeStyle, "lineHeightPx", "lineHeight")
        t5 == WithPx(t4, nodeStyle, "letterSpacing", "letterSpacing")
    IN  IF Has(nodeStyle, "textAlignHorizontal") /\ nodeStyle.textAlignHorizontal # ""
        THEN SetKey(t5, "textAlign",
                    Str(CASE nodeStyle.textAlignHorizontal = "LEFT" -> "left"
                          [] nodeStyle.textAlignHorizontal = "CENTER" -> "center"
                          [] nodeStyle.textAlignHorizontal = "RIGHT" -> "right"
                          [] nodeStyle.textAlignHorizontal = "JUSTIFIED" -> "justify"
                          [] OTHER -> "left"))
        ELSE t5

\* getTextStyleId reads fill.type of rawNode.fills[0] without a null check.
TextFillIsNull(rawNode) ==
    /\ Has(rawNode, "fills") /\ Len(rawNode.fills) > 0
    /\ rawNode.fills[1] \in {JsNull, Undefined}

TextStyleData(rawNode) ==
    LET t == TextProps(rawNode.style)
    IN  IF /\ Has(rawNode, "fills") /\ Len(rawNode.fills) > 0
           /\ Has(rawNode.fills[1], "type") /\ rawNode.fills[1].type = "SOLID"
           /\ Has(rawNode.fills[1], "color")
        THEN SetKey(t, "color", Str(rgbaToHex(rawNode.fills[1].color)))
        ELSE t

getTextStyleId(rawNode, dict) ==
    IF ~IsObject(rawNode) \/ ~Has(rawNode, "type") \/ rawNode.type # "TEXT"
       \/ ~Has(rawNode, "style")
    THEN Returned(JsNull, dict)
    ELSE IF TextFillIsNull(rawNode)
         THEN Raised(dict)
         ELSE LET r == InternStyle(TextStyleData(rawNode), dict)
              IN  Returned(r.id, r.styles)

\* The properties of o named in props that are defined, as they are.
RECURSIVE CopyDefined(_, _)
CopyDefined(o, props) ==
    IF props = <<>>
    THEN [copied |-> TRUE]
    ELSE IF Has(o, Head(props))
         THEN (Head(props) :> o[Head(props)]) @@ CopyDefined(o, Tail(props))
         ELSE CopyDefined(o, Tail(props))

getPositionData(rawNode) ==
    (IF Has(rawNode, "absoluteBoundingBox")
     THEN [x |-> rawNode.absoluteBoundingBox.x, y |-> rawNode.absoluteBoundingBox.y,
           width |-> rawNode.absoluteBoundingBox.width,
           height |-> rawNode.absoluteBoundingBox.height]
     ELSE [copied |-> TRUE])
    @@ CopyDefined(rawNode, <<"relativeTransform", "rotation", "constraints",
                              "layoutAlign", "layoutGrow", "layoutPositioning">>)

\* Object.assign(node, extra): extra's properties, then node's others; the
\* bookkeeping field of CopyDefined is not a property.
Assign(node, extra) ==
    LET merged == extra @@ node
    IN  [k \in (DOMAIN merged) \ {"copied"} |-> merged[k]]

\* if (!rawNode || typeof rawNode !== "object"): neither null nor a number
\* nor undefined is a node.
IsNode(rawNode) == IsObject(rawNode)

\* rawNode.id || "unknown" and rawNode.name || fallback.
IdOrUnknownEmpty(rawNode) == IF Has(rawNode, "id") THEN rawNode.id ELSE ""
IdOrUnknown(rawNode) ==
    IF Has(rawNode, "id") /\ rawNode.id # "" THEN rawNode.id ELSE "unknown"
NameOr(rawNode, fallback) ==
    IF Has(rawNode, "name") /\ rawNode.name # "" THEN rawNode.name ELSE fallback

HasType(rawNode) == Has(rawNode, "type") /\ rawNode.type # ""
InvalidNode == [error |-> "Invalid node"]
StubWithFlag(rawNode) ==
    [id |-> IdOrUnknown(rawNode), name |-> NameOr(rawNode, "Unknown Node"),
     visible |-> ~(Has(rawNode, "visible") /\ rawNode.visible = FALSE)]
Stub(rawNode) == [id |-> IdOrUnknown(rawNode), name |-> NameOr(rawNode, "Unknown Node")]
BaseNode(rawNode) ==
    [id |-> IdOrUnknown(rawNode), name |-> NameOr(rawNode, "Unnamed"),
     type |-> rawNode.type,
     visible |-> ~(Has(rawNode, "visible") /\ rawNode.visible = FALSE)]

\* What transformNode hands to every style processor: processor(rawNode, styles).
ProcessorArgument(rawNode) == AsObject(rawNode)
\* What getFillStyleId is documented to take: the node's fills array.
FillsOf(rawNode) == IF Has(rawNode, "fills") THEN AsArray(rawNode.fills) ELSE Undefined

\* node[key] = styleId without the if (styleId) guard.
WithStyleIdAlways(acc, key, r) ==
    [node |-> (key :> r.id) @@ acc.node,
     styles |-> r.styles,
     threw |-> r.threw]
\* const styleId = processor(rawNode, styles); if (styleId) node[key] = styleId;
\* acc is the node and the dictionary so far, r what the processor did.
WithStyleId(acc, key, r) ==
    [node |-> IF r.id # JsNull THEN (key :> r.id) @@ acc.node ELSE acc.node,
     styles |-> r.styles,
     threw |-> r.threw]

\* The three entries of the styleProcessors table, each run when its
\* condition holds and no earlier one raised.
FillProcessor(rawNode, acc) ==
    IF Has(rawNode, "fills")
    THEN WithStyleId(acc, "fillStyleId", getFillStyleId(ProcessorArgument(rawNode), acc.styles))
    ELSE acc
LayoutProcessor(rawNode, acc) ==
    IF acc.threw
    THEN acc
    ELSE WithStyleId(acc, "layoutStyleId", getLayoutStyleId(rawNode, acc.styles))
TextProcessor(rawNode, acc) ==
    IF acc.threw \/ rawNode.type # "TEXT"
    THEN acc
    ELSE WithStyleId(acc, "textStyleId", getTextStyleId(rawNode, acc.styles))

\* styleProcessors.forEach(...): fill, layout, text, on one dictionary.
ApplyStyleProcessors(rawNode, node, dict) ==
    TextProcessor(rawNode,
        LayoutProcessor(rawNode,
            FillProcessor(rawNode, [node |-> node, styles |-> dict, threw |-> FALSE])))

\* rawNode.fills.find(fill => fill && fill.type === "IMAGE" && fill.imageRef)
RECURSIVE FindImageFill(_)
FindImageFill(fills) ==
    IF fills = <<>>
    THEN Undefined
    ELSE IF /\ IsObject(Head(fills)) /\ Has(Head(fills), "type")
            /\ Head(fills).type = "IMAGE"
            /\ Has(Head(fills), "imageRef") /\ Head(fills).imageRef # ""
         THEN Head(fills)
         ELSE FindImageFill(Tail(fills))

processNodeContent(rawNode, node, nodeType) ==
    LET n1 == IF nodeType = "TEXT" /\ Has(rawNode, "characters") /\ rawNode.characters # ""
              THEN ("characters" :> rawNode.characters) @@ node
              ELSE node
    IN  IF /\ nodeType = "RECTANGLE" /\ Has(rawNode, "fills")
           /\ FindImageFill(rawNode.fills) # Undefined
        THEN ("imageRef" :> FindImageFill(rawNode.fills).imageRef) @@ n1
        ELSE n1

processComponentProperties(rawNode, node) ==
    Assign(node, CopyDefined(rawNode, <<"componentPropertyReferences", "componentProperties",
                                        "componentPropertyDefinitions", "variantProperties",
                                        "componentSetId", "componentId">>))

\* .filter(child => child && child.visible !== false)
ChildIsProcessedAny(child) == child # JsNull /\ child # Undefined
ChildIsProcessed(child) ==
    /\ child # JsNull /\ child # Undefined
    /\ IsObject(child) => ~(Has(child, "visible") /\ child.visible = FALSE)

RECURSIVE transformNode(_, _)
RECURSIVE transformChildren(_, _)

\* One more element of the mapped children array, or the TypeError that
\* ended the map.
AppendChild(acc, r) ==
    [nodes |-> IF r.threw THEN acc.nodes ELSE Append(acc.nodes, r.node),
     styles |-> r.styles,
     threw |-> r.threw]

\* .map(child => transformNode(child, styles)), left to right on the one
\* dictionary; acc is the array and the dictionary so far.
transformChildren(children, acc) ==
    IF children = <<>> \/ acc.threw
    THEN acc
    ELSE transformChildren(Tail(children),
                           AppendChild(acc, transformNode(Head(children), acc.styles)))

\* processNodeContent(rawNode, node, nodeType) on the node built so far.
WithContent(rawNode, acc) ==
    [node |-> processNodeContent(rawNode, acc.node, rawNode.type),
     styles |-> acc.styles,
     threw |-> acc.threw]

\* node.children = ...; processComponentProperties(rawNode, node); return node
WithChildren(rawNode, acc, kids) ==
    [node |-> IF kids.threw
              THEN Undefined
              ELSE processComponentProperties(rawNode, ("children" :> kids.nodes) @@ acc.node),
     styles |-> kids.styles,
     threw |-> kids.threw]
WithoutChildren(rawNode, acc) ==
    [node |-> IF acc.threw THEN Undefined ELSE processComponentProperties(rawNode, acc.node),
     styles |-> acc.styles,
     threw |-> acc.threw]

\* The body of transformNode after the style processors ran.
AfterStyles(rawNode, acc) ==
    IF acc.threw \/ ~Has(rawNode, "children")
    THEN WithoutChildren(rawNode, acc)
    ELSE WithChildren(rawNode, acc,
                      transformChildren(SelectSeq(rawNode.children, ChildIsProcessed),
                                        [nodes |-> <<>>, styles |-> acc.styles, threw |-> FALSE]))

\* transformNode(rawNode, styles): the output node, the dictionary after the
\* call, and whether the call raised instead of returning.
transformNode(rawNode, dict) ==
    IF ~IsNode(rawNode)
    THEN [node |-> InvalidNode, styles |-> dict, threw |-> FALSE]
    ELSE IF ~HasType(rawNode)
         THEN [node |-> Stub(rawNode), styles |-> dict, threw |-> FALSE]
         ELSE AfterStyles(rawNode,
                  WithContent(rawNode,
                      ApplyStyleProcessors(rawNode,
                          Assign(BaseNode(rawNode), getPositionData(rawNode)), dict)))

\* const styles = {} at the start of every call.
StylesAtEntryShared == IF prevCall = JsNull \/ prevCall.result.threw
                       THEN EmptyDict
                       ELSE prevCall.result.value.styles
StylesAtEntry == EmptyDict

\* What a call does: it returns a value or raises.
Return(value) == [threw |-> FALSE, value |-> value]
Raise == [threw |-> TRUE, value |-> Undefined]

\* Object.entries(rawData.nodes).forEach(...): entries is the mapping in
\* property order, a sequence of <<nodeId, nodeData>>.
RECURSIVE transformEntries(_, _, _)
transformEntries(entries, nodes, dict) ==
    IF entries = <<>>
    THEN [nodes |-> nodes, styles |-> dict, threw |-> FALSE]
    ELSE LET nodeId == Head(entries)[1]
             nodeData == Head(entries)[2]
         IN  IF IsObject(nodeData) /\ Has(nodeData, "document") /\ nodeData.document # JsNull
             THEN LET r == transformNode(nodeData.document, dict)
                  IN  IF r.threw
                      THEN [nodes |-> nodes, styles |-> r.styles, threw |-> TRUE]
                      ELSE transformEntries(Tail(entries), (nodeId :> r.node) @@ nodes, r.styles)
             ELSE transformEntries(Tail(entries), nodes, dict)

transformFigmaJson(payload) ==
    IF IsObject(payload) /\ Has(payload, "nodes")
    THEN LET r == transformEntries(payload.nodes, <<>>, StylesAtEntry)
         IN  IF r.threw THEN Raise ELSE Return([nodes |-> r.nodes, styles |-> r.styles])
    ELSE LET root == IF IsObject(payload) /\ Has(payload, "document") /\ payload.document # JsNull
                     THEN payload.document
                     ELSE payload
             r == transformNode(root, StylesAtEntry)
         IN  IF r.threw THEN Raise ELSE Return([document |-> r.node, styles |-> r.styles])

--------------------------------------------------------------------------
(* Spec: one call of transformFigmaJson on a payload.                      *)

MaxNodes == 3

White == [r |-> Scale, g |-> Scale, b |-> Scale, a |-> Scale]
SolidWhite == [type |-> "SOLID", color |-> White, visible |-> TRUE]
ArialStyle == [fontFamily |-> "Arial", fontSize |-> 16, fontWeight |-> 400]

\* Raw nodes without children, as the Figma API or a careless caller can
\* send them.
RootFrame == [id |-> "1", name |-> "Root", type |-> "FRAME", visible |-> TRUE,
              fills |-> <<SolidWhite>>]
Label == [id |-> "2", name |-> "Label", type |-> "TEXT", visible |-> TRUE,
          characters |-> "Hi", style |-> ArialStyle]
HiddenFrame == [id |-> "3", name |-> "Hidden", type |-> "FRAME", visible |-> FALSE,
                fills |-> <<[type |-> "SOLID", color |-> Red, opacity |-> Scale \div 2]>>,
                absoluteBoundingBox |-> [x |-> 0, y |-> 0, width |-> 10, height |-> 20],
                layoutMode |-> "HORIZONTAL", paddingLeft |-> 4, itemSpacing |-> 8,
                primaryAxisAlignItems |-> "CENTER"]
TypelessNode == [id |-> "4", fills |-> <<SolidWhite>>, cornerRadius |-> 9]
ImageRectangle == [type |-> "RECTANGLE", cornerRadius |-> 4, layoutAlign |-> "STRETCH",
                   componentId |-> "c1",
                   fills |-> <<[type |-> "IMAGE", imageRef |-> "img"]>>]
NullFillText == [id |-> "6", name |-> "Bad", type |-> "TEXT",
                 style |-> [fontFamily |-> "Arial"], fills |-> <<JsNull>>]
RedText == [id |-> "7", name |-> "Title", type |-> "TEXT", style |-> ArialStyle,
            fills |-> <<[type |-> "SOLID", color |-> Red]>>]
Box == [id |-> "8", name |-> "Box", type |-> "FRAME", fills |-> <<SolidWhite>>]
UnpaintedFrame == [id |-> "9", name |-> "Ghost", type |-> "FRAME",
                   fills |-> <<[type |-> "SOLID", color |-> White, visible |-> FALSE]>>]
BareObject == [locked |-> TRUE]

NodeProfiles == {RootFrame, Label, HiddenFrame, TypelessNode, ImageRectangle,
                 NullFillText, RedText, Box, UnpaintedFrame, BareObject}
\* Those that are given children: a visible frame, a hidden one, and an
\* object without a type.
ParentProfiles == {RootFrame, HiddenFrame, TypelessNode}
\* Entries of a children array that are not objects: null, a number.
NonNodes == {JsNull, JsNum}

\* The raw trees of n entries, and the children arrays of m entries in all.
RECURSIVE TreesOfSize(_)
RECURSIVE ForestsOfSize(_)
TreesOfSize(n) ==
    IF n = 1
    THEN NodeProfiles \cup NonNodes
    ELSE {("children" :> f) @@ p : p \in ParentProfiles, f \in ForestsOfSize(n - 1)}
ForestsOfSize(m) ==
    IF m = 0
    THEN {<<>>}
    ELSE UNION {{<<t>> \o f : t \in TreesOfSize(k), f \in ForestsOfSize(m - k)} : k \in 1..m}

Trees == UNION {TreesOfSize(n) : n \in 1..MaxNodes}

\* The values of a nodes mapping: { document }, an entry without one, null.
EntriesOfSize(n) ==
    IF n = 0
    THEN {JsNull, [err |-> "Not found"]}
    ELSE {[document |-> t] : t \in TreesOfSize(n)}
NodesMappings ==
    {<<>>}
    \cup UNION {{<< <<"1:2", e>> >> : e \in EntriesOfSize(n)} : n \in 0..(MaxNodes - 1)}
    \cup UNION {{<< <<"1:2", e1>>, <<"3:4", e2>> >> :
                    e1 \in EntriesOfSize(n[1]), e2 \in EntriesOfSize(n[2])} :
                n \in {m \in (0..MaxNodes) \X (0..MaxNodes) : m[1] + m[2] < MaxNodes}}

Payloads ==
    {[document |-> t] : t \in Trees}
    \cup Trees
    \cup {[nodes |-> m] : m \in NodesMappings}
    \cup {[nodes |-> << <<"1:2", [document |-> Label]>> >>, document |-> RootFrame]}

IdleHelpers ==
    /\ styles = EmptyDict /\ internLog = <<>>
    /\ colorCall = JsNull /\ hexOut = JsNull /\ fill = JsNull /\ css = JsNull
    /\ IdlePasses

Init ==
    /\ NoServer
    /\ pc = "call"
    /\ rawData \in Payloads
    /\ result = JsNull
    /\ prevCall = JsNull
    /\ IdleHelpers

\* const data = transformFigmaJson(rawData), run to completion.
Transform ==
    /\ pc = "call"
    /\ result' = transformFigmaJson(rawData)
    /\ pc' = "done"
    /\ UNCHANGED <<requests, downloads, rawData, prevCall, styles, internLog, colorCall, hexOut, fill, css,
                 heap, input, cleanOptions, optimizedData>>

Next == Transform

Spec == Init /\ [][Next]_vars

--------------------------------------------------------------------------
(* Properties of one call.                                                 *)

Completed == pc = "done"
Returns == pc = "done" /\ ~result.threw

\* The roots the dispatch hands to transformNode, and the records the
\* result holds for them, in the same order.
EntryHasDocument(entry) ==
    IsObject(entry[2]) /\ Has(entry[2], "document") /\ entry[2].document # JsNull
DocumentEntries(payload) == SelectSeq(payload.nodes, EntryHasDocument)
HasNodes(payload) == IsObject(payload) /\ Has(payload, "nodes")
HasDocument(payload) ==
    IsObject(payload) /\ Has(payload, "document") /\ payload.document # JsNull
RootsOf(payload) ==
    IF HasNodes(payload)
    THEN [i \in 1..Len(DocumentEntries(payload)) |-> DocumentEntries(payload)[i][2].document]
    ELSE IF HasDocument(payload) THEN <<payload.document>> ELSE <<payload>>
OutputRootsOf(payload, value) ==
    IF HasNodes(payload)
    THEN [i \in 1..Len(DocumentEntries(payload)) |-> value.nodes[DocumentEntries(payload)[i][1]]]
    ELSE <<value.document>>

IsHidden(rawNode) == Has(rawNode, "visible") /\ rawNode.visible = FALSE

\* The object nodes of a forest of raw nodes in pre-order, without the
\* hidden ones and what is below them; rootsExempt keeps the members of the
\* forest itself whether hidden or not.  An object without a type is a
\* leaf.
RECURSIVE KeptNodes(_, _)
KeptNodes(forest, rootsExempt) ==
    IF forest = <<>>
    THEN <<>>
    ELSE (IF ~IsObject(Head(forest)) \/ (~rootsExempt /\ IsHidden(Head(forest)))
          THEN <<>>
          ELSE <<Head(forest)>>
               \o (IF Has(Head(forest), "type") /\ Has(Head(forest), "children")
                   THEN KeptNodes(Head(forest).children, FALSE)
                   ELSE <<>>))
         \o KeptNodes(Tail(forest), rootsExempt)

\* Every record of an output forest in pre-order, and those of them that
\* are nodes rather than { error } markers.
RECURSIVE OutputRecords(_)
OutputRecords(forest) ==
    IF forest = <<>>
    THEN <<>>
    ELSE <<Head(forest)>>
         \o (IF Has(Head(forest), "children") THEN OutputRecords(Head(forest).children) ELSE <<>>)
         \o OutputRecords(Tail(forest))
IsMarker(record) == Has(record, "error")
IsOutputNode(record) == ~IsMarker(record)
OutputNodes(forest) == SelectSeq(OutputRecords(forest), IsOutputNode)

ExpectedId(rawNode) == IF Has(rawNode, "id") THEN rawNode.id ELSE "unknown"
ExpectedName(rawNode, fallback) == IF Has(rawNode, "name") THEN rawNode.name ELSE fallback

\* The ids of the styles a typed node yields by itself: its fill (read from
\* its fills array), its layout, its text.
StyleIdsOf(rawNode) ==
    IF ~Has(rawNode, "type")
    THEN {}
    ELSE ({getFillStyleId(FillsOf(rawNode), EmptyDict).id,
           getLayoutStyleId(rawNode, EmptyDict).id,
           getTextStyleId(rawNode, EmptyDict).id}) \ {JsNull}
StyleIdsOfAll(rawNodes) == UNION {StyleIdsOf(rawNodes[i]) : i \in 1..Len(rawNodes)}

Kept == KeptNodes(RootsOf(rawData), TRUE)
Visible == KeptNodes(RootsOf(rawData), FALSE)
Outs == OutputNodes(OutputRootsOf(rawData, result.value))
StyleDict == result.value.styles

\* A FRAME root with one visible white SOLID fill and one TEXT child.
EndToEnd == [document |-> ("children" :> <<Label>>) @@ RootFrame]

PaintsSolid(rawNode) ==
    /\ Has(rawNode, "type") /\ Has(rawNode, "fills") /\ Len(rawNode.fills) > 0
    /\ IsObject(rawNode.fills[1])
    /\ ~IsHidden(rawNode.fills[1])
    /\ Has(rawNode.fills[1], "type") /\ rawNode.fills[1].type = "SOLID"
    /\ Has(rawNode.fills[1], "color")
FillOpacity(f) == IF Has(f, "opacity") THEN f.opacity ELSE Scale

\* C2 (as stated): a node whose fills[0] is a visible SOLID fill with a
\* colour gets a fillStyleId whose StyleDict entry is { backgroundColor:
\* toHex(color), opacity }; a node whose fills[0] is invisible or not SOLID
\* gets none; the FRAME root with a white fill and a TEXT child yields a
\* StyleDict of exactly two entries.
C2_FillStyle ==
    Returns =>
        /\ Len(Outs) = Len(Kept)
        /\ \A i \in 1..Len(Kept) :
              IF PaintsSolid(Kept[i])
              THEN /\ Has(Outs[i], "fillStyleId")
                   /\ Outs[i].fillStyleId \in DOMAIN StyleDict
                   /\ ToSet(StyleDict[Outs[i].fillStyleId])
                        = {<<"backgroundColor", Str(rgbaToHex(Kept[i].fills[1].color))>>,
                           <<"opacity", Num(FillOpacity(Kept[i].fills[1]))>>}
              ELSE ~Has(Outs[i], "fillStyleId")
        /\ rawData = EndToEnd => Cardinality(DOMAIN StyleDict) = 2

\* C3 (as stated, for trees whose roots are visible): the StyleDict of a
\* call has exactly K entries, K the number of distinct non-empty style
\* contents its visible nodes yield over fill, layout and text.
C3_DedupBound ==
    (Returns /\ Visible = Kept) =>
        Cardinality(DOMAIN StyleDict) = Cardinality(StyleIdsOfAll(Visible))

\* C4 (as stated): a node with visible === false is absent from the output
\* tree, with all below it, and contributes no StyleDict entry.
C4_HiddenAbsent ==
    Returns =>
        /\ Len(Outs) = Len(Visible)
        /\ \A i \in 1..Len(Visible) : Outs[i].id = ExpectedId(Visible[i])
        /\ DOMAIN StyleDict \subseteq StyleIdsOfAll(Visible)

\* C4 (amended): a child with visible === false is absent from the output
\* tree, with all below it, and contributes no StyleDict entry; the root
\* handed to the transformer is emitted whatever its visible flag.
C4_HiddenChildrenAbsent ==
    Returns =>
        /\ Len(Outs) = Len(Kept)
        /\ \A i \in 1..Len(Kept) : Outs[i].id = ExpectedId(Kept[i])
        /\ DOMAIN StyleDict \subseteq StyleIdsOfAll(Kept)

\* A hidden root with a hidden child that has a child of its own: the root
\* is emitted, the child and the grandchild are not.
C4_Witness ==
    /\ Returns
    /\ rawData = [document |-> ("children" :> <<("children" :> <<Label>>) @@ HiddenFrame>>)
                                @@ HiddenFrame]
    /\ result.value.document.id = "3"
    /\ result.value.document.children = <<>>

\* C5 (as stated): every output record carries an id and a name, "unknown"
\* and "Unnamed" standing in for a missing one, typed or not.
C5_IdAndName ==
    Returns =>
        /\ \A i \in 1..Len(OutputRecords(OutputRootsOf(rawData, result.value))) :
              /\ Has(OutputRecords(OutputRootsOf(rawData, result.value))[i], "id")
              /\ Has(OutputRecords(OutputRootsOf(rawData, result.value))[i], "name")
        /\ Len(Outs) = Len(Kept)
        /\ \A i \in 1..Len(Kept) :
              /\ Outs[i].id = ExpectedId(Kept[i])
              /\ Outs[i].name = ExpectedName(Kept[i], "Unnamed")

\* C5 (amended): every output record is either the marker { error:
\* "Invalid node" }, which stands for an entry that is not an object, or
\* carries an id and a name: the node's own, else "unknown" for the id,
\* "Unnamed" for the name of a typed node and "Unknown Node" for the name
\* of a node without a type.
C5_IdAndNameOfObjects ==
    Returns =>
        /\ \A i \in 1..Len(OutputRecords(OutputRootsOf(rawData, result.value))) :
              \/ OutputRecords(OutputRootsOf(rawData, result.value))[i] = InvalidNode
              \/ /\ Has(OutputRecords(OutputRootsOf(rawData, result.value))[i], "id")
                 /\ Has(OutputRecords(OutputRootsOf(rawData, result.value))[i], "name")
        /\ Len(Outs) = Len(Kept)
        /\ \A i \in 1..Len(Kept) :
              /\ Outs[i].id = ExpectedId(Kept[i])
              /\ Outs[i].name = ExpectedName(Kept[i], IF Has(Kept[i], "type")
                                                      THEN "Unnamed"
                                                      ELSE "Unknown Node")

\* A typed node and a typeless one, both without id and name, under a root.
C5_Witness ==
    /\ Returns
    /\ rawData = [document |-> ("children" :> <<ImageRectangle, BareObject>>) @@ RootFrame]
    /\ result.value.document.children[1].id = "unknown"
    /\ result.value.document.children[1].name = "Unnamed"
    /\ result.value.document.children[2].id = "unknown"
    /\ result.value.document.children[2].name = "Unknown Node"

\* C6 (as stated): no call raises, whatever the payload; malformed input
\* degrades to placeholders or is skipped.
C6_NeverRaises == Completed => ~result.threw

\* The dictionary after the roots were transformed in order on it.
RECURSIVE DictAfter(_, _)
DictAfter(roots, dict) ==
    IF roots = <<>>
    THEN dict
    ELSE DictAfter(Tail(roots), transformNode(Head(roots), dict).styles)

\* C7 (as stated): a payload with nodes returns { nodes, styles } with one
\* transformed root per entry that has a document, all on one shared
\* StyleDict; a payload with a document and no nodes returns { document,
\* styles }; any other payload is transformed as a single root and returned
\* as { document, styles }; and none of this raises.
C7_Dispatch ==
    Completed =>
        /\ ~result.threw
        /\ DOMAIN result.value = IF HasNodes(rawData)
                                 THEN {"nodes", "styles"}
                                 ELSE {"document", "styles"}
        /\ HasNodes(rawData) =>
              DOMAIN result.value.nodes
                = {DocumentEntries(rawData)[i][1] : i \in 1..Len(DocumentEntries(rawData))}
        /\ ~HasNodes(rawData) => Len(RootsOf(rawData)) = 1
        /\ \A i \in 1..Len(RootsOf(rawData)) :
              OutputRootsOf(rawData, result.value)[i]
                = transformNode(RootsOf(rawData)[i],
                                DictAfter(SubSeq(RootsOf(rawData), 1, i - 1), EmptyDict)).node
        /\ StyleDict = DictAfter(RootsOf(rawData), EmptyDict)

\* The children of a raw node that are not hidden nodes, in input order.
NotHidden(child) == ~(IsObject(child) /\ IsHidden(child))
HasChildren(rawNode) == Has(rawNode, "type") /\ Has(rawNode, "children")
IsTyped(rawNode) == Has(rawNode, "type")

\* C15 (as stated): every entry of a children array that is not an object
\* (null, a number) is an { error: "Invalid node" } marker in the output
\* children, in its input position among the children that are kept, and
\* its object siblings are transformed as usual.
C15_MarkerPerMalformedChild ==
    Returns =>
        /\ Len(Outs) = Len(Kept)
        /\ \A i \in 1..Len(Kept) :
              HasChildren(Kept[i]) =>
                 /\ Has(Outs[i], "children")
                 /\ Len(Outs[i].children) = Len(SelectSeq(Kept[i].children, NotHidden))
                 /\ \A j \in 1..Len(SelectSeq(Kept[i].children, NotHidden)) :
                       IF IsObject(SelectSeq(Kept[i].children, NotHidden)[j])
                       THEN /\ IsOutputNode(Outs[i].children[j])
                            /\ Outs[i].children[j].id
                                 = ExpectedId(SelectSeq(Kept[i].children, NotHidden)[j])
                       ELSE Outs[i].children[j] = InvalidNode

\* C16 (as stated): the output children of a node are the transforms of
\* exactly its input children whose visible is not false, in input order,
\* at every depth.
C16_ChildrenOrder ==
    Returns =>
        /\ Len(Outs) = Len(Kept)
        /\ \A i \in 1..Len(Kept) :
              HasChildren(Kept[i]) =>
                 /\ Has(Outs[i], "children")
                 /\ Outs[i].children
                      = [j \in 1..Len(SelectSeq(Kept[i].children, NotHidden)) |->
                            transformNode(SelectSeq(Kept[i].children, NotHidden)[j],
                                          EmptyDict).node]

\* C17: a node without a type is emitted with exactly the keys id and name;
\* nothing below it is emitted, the dictionary is the same after it as
\* before, and no style of the call stems from a node without a type.
C17_TypelessStub ==
    Returns =>
        /\ Len(Outs) = Len(Kept)
        /\ \A i \in 1..Len(Kept) :
              ~Has(Kept[i], "type") =>
                 /\ DOMAIN Outs[i] = {"id", "name"}
                 /\ transformNode(Kept[i], StyleDict)
                      = [node |-> Outs[i], styles |-> StyleDict, threw |-> FALSE]
        /\ DOMAIN StyleDict \subseteq StyleIdsOfAll(SelectSeq(Kept, IsTyped))

\* A typeless node with a fill, a corner radius and a child, under a root.
C17_Witness ==
    /\ Returns
    /\ rawData = [document |-> ("children" :> <<("children" :> <<Label>>) @@ TypelessNode>>)
                                @@ RootFrame]
    /\ result.value.document.children = <<[id |-> "4", name |-> "Unknown Node"]>>
    /\ StyleDict = EmptyDict

--------------------------------------------------------------------------
(* SpecCalls: two calls of transformFigmaJson, one after the other.        *)

CallPayloads ==
    {[document |-> p] : p \in NodeProfiles}
    \cup {EndToEnd, JsNull,
          [nodes |-> << <<"1:2", [document |-> Label]>>, <<"3:4", [document |-> Box]>> >>]}

InitCalls ==
    /\ NoServer
    /\ pc = "call"
    /\ rawData \in CallPayloads
    /\ result = JsNull
    /\ prevCall = JsNull
    /\ IdleHelpers

\* The next request reaches the handler after the first call completed.
NextCall ==
    /\ pc = "done"
    /\ prevCall = JsNull
    /\ prevCall' = [payload |-> rawData, result |-> result]
    /\ rawData' \in CallPayloads
    /\ result' = JsNull
    /\ pc' = "call"
    /\ UNCHANGED <<requests, downloads, styles, internLog, colorCall, hexOut, fill, css,
                 heap, input, cleanOptions, optimizedData>>

NextCalls == Transform \/ NextCall

SpecCalls == InitCalls /\ [][NextCalls]_vars

SecondCallCompleted == pc = "done" /\ prevCall # JsNull

--------------------------------------------------------------------------
(* The restore pass: restorePositionData, restorePositionDataTree and       *)
(* buildNodeMap of utils/transformFigmaJson.js (lines 801-869).  The pass   *)
(* writes into the processed tree; the source tree is another object.       *)

Truthy(v) == v # JsNull /\ v # Undefined

positionProps ==
    {"x", "y", "width", "height", "absoluteBoundingBox", "layoutPositioning",
     "constraints", "layoutAlign", "layoutGrow", "relativeTransform", "size", "clipsContent"}

\* for (const prop of positionProps)
\*   if (sourceNode[prop] !== undefined && node[prop] === undefined) node[prop] = sourceNode[prop]
restorePositionDataOverwriting(node, sourceNode) ==
    IF ~Truthy(node) \/ ~Truthy(sourceNode)
    THEN node
    ELSE [prop \in (DOMAIN sourceNode) \cap positionProps |-> sourceNode[prop]] @@ node
restorePositionData(node, sourceNode) ==
    IF ~Truthy(node) \/ ~Truthy(sourceNode)
    THEN node
    ELSE node @@ [prop \in (DOMAIN sourceNode) \cap positionProps |-> sourceNode[prop]]

RECURSIVE buildNodeMap(_, _)
RECURSIVE buildNodeMapEach(_, _)

\* if (tree.id) map[tree.id] = tree, on the map as the parent left it.
WithNode(tree, map) ==
    IF Has(tree, "id") /\ tree.id # "" THEN (tree.id :> tree) @@ map ELSE map

buildNodeMap(tree, map) ==
    IF ~IsObject(tree)
    THEN map
    ELSE IF Has(tree, "children")
         THEN buildNodeMapEach(tree.children, WithNode(tree, map))
         ELSE WithNode(tree, map)

\* tree.children.forEach(child => buildNodeMap(child, map))
buildNodeMapEach(children, map) ==
    IF children = <<>>
    THEN map
    ELSE buildNodeMapEach(Tail(children), buildNodeMap(Head(children), map))

\* nodeMap[tree.id], undefined for an id the map does not hold.
LookupAny(nodeMap, id) ==
    IF DOMAIN nodeMap # {} THEN nodeMap[CHOOSE k \in DOMAIN nodeMap : TRUE] ELSE Undefined
Lookup(nodeMap, id) == IF id \in DOMAIN nodeMap THEN nodeMap[id] ELSE Undefined

\* if (tree.id && nodeMap[tree.id]) restorePositionData(tree, nodeMap[tree.id])
RestoredNode(tree, nodeMap) ==
    IF Has(tree, "id") /\ tree.id # "" /\ Truthy(Lookup(nodeMap, tree.id))
    THEN restorePositionData(tree, Lookup(nodeMap, tree.id))
    ELSE tree

RECURSIVE restorePositionDataTree(_, _, _)
RECURSIVE restoreChildren(_, _, _)

\* The body of restorePositionDataTree once the map is built.
RestoreWith(tree, sourceTree, nodeMap) ==
    IF ~IsObject(tree)
    THEN tree
    ELSE IF Has(tree, "children")
         THEN ("children" :> restoreChildren(tree.children, sourceTree, nodeMap))
              @@ RestoredNode(tree, nodeMap)
         ELSE RestoredNode(tree, nodeMap)

restorePositionDataTree(tree, sourceTree, nodeMap) ==
    IF ~Truthy(tree) \/ ~Truthy(sourceTree)
    THEN tree
    ELSE RestoreWith(tree, sourceTree,
                     IF DOMAIN nodeMap = {} THEN buildNodeMap(sourceTree, nodeMap) ELSE nodeMap)

\* tree.children.forEach(child => restorePositionDataTree(child, sourceTree, nodeMap))
restoreChildren(children, sourceTree, nodeMap) ==
    IF children = <<>>
    THEN <<>>
    ELSE <<restorePositionDataTree(Head(children), sourceTree, nodeMap)>>
         \o restoreChildren(Tail(children), sourceTree, nodeMap)

--------------------------------------------------------------------------
(* SpecRestore: one call of restorePositionDataTree(tree, sourceTree).      *)

MaxRestoreNodes == 2

BoxAt == [x |-> 0, y |-> 0, width |-> 10, height |-> 20]
PlainA == [id |-> "a", name |-> "A"]
PlacedA == [id |-> "a", name |-> "A", x |-> 1, layoutAlign |-> "STRETCH"]
MovedA == [id |-> "a", name |-> "A", x |-> 7]
PlacedB == [id |-> "b", name |-> "B", absoluteBoundingBox |-> BoxAt, clipsContent |-> TRUE]
PlainB == [id |-> "b", name |-> "B"]
NoId == [name |-> "N", x |-> 3]

RestoreProfiles == {PlainA, PlacedA, MovedA, PlacedB, PlainB, NoId}
RestoreParents == {PlainA, PlacedA, PlacedB}

RECURSIVE RestoreTreesOfSize(_)
RECURSIVE RestoreForestsOfSize(_)
RestoreTreesOfSize(n) ==
    IF n = 1
    THEN RestoreProfiles \cup {JsNull}
    ELSE {("children" :> f) @@ p : p \in RestoreParents, f \in RestoreForestsOfSize(n - 1)}
RestoreForestsOfSize(m) ==
    IF m = 0
    THEN {<<>>}
    ELSE UNION {{<<t>> \o f : t \in RestoreTreesOfSize(k), f \in RestoreForestsOfSize(m - k)} :
                k \in 1..m}

RestoreTrees == UNION {RestoreTreesOfSize(n) : n \in 1..MaxRestoreNodes}

InitRestore ==
    /\ NoServer
    /\ pc = "restore"
    /\ optimizedData \in RestoreTrees
    /\ input = optimizedData
    /\ rawData \in RestoreTrees
    /\ result = JsNull
    /\ prevCall = JsNull /\ styles = EmptyDict /\ internLog = <<>>
    /\ colorCall = JsNull /\ hexOut = JsNull /\ fill = JsNull /\ css = JsNull
    /\ heap = <<>> /\ cleanOptions = JsNull

\* restored = restorePositionDataTree(optimizedData, rawData): the tree is
\* written in place and returned.
Restore ==
    /\ pc = "restore"
    /\ optimizedData' = restorePositionDataTree(optimizedData, rawData, <<>>)
    /\ result' = optimizedData'
    /\ pc' = "restored"
    /\ UNCHANGED <<requests, downloads, rawData, input, prevCall, styles, internLog, colorCall, hexOut, fill, css,
                   heap, cleanOptions>>

NextRestore == Restore

SpecRestore == InitRestore /\ [][NextRestore]_vars

Restored == pc = "restored"

RECURSIVE AllObjects(_)
\* The objects of a forest in pre-order, children entries that are not objects left out.
AllObjects(forest) ==
    IF forest = <<>>
    THEN <<>>
    ELSE (IF IsObject(Head(forest))
          THEN <<Head(forest)>> \o (IF Has(Head(forest), "children")
                                    THEN AllObjects(Head(forest).children)
                                    ELSE <<>>)
          ELSE <<>>)
         \o AllObjects(Tail(forest))

HasId(node) == Has(node, "id")
IdsOf(nodes) == [i \in 1..Len(nodes) |-> nodes[i].id]
DistinctIds(tree) ==
    \A i, j \in 1..Len(SelectSeq(AllObjects(<<tree>>), HasId)) :
        IdsOf(SelectSeq(AllObjects(<<tree>>), HasId))[i] = IdsOf(SelectSeq(AllObjects(<<tree>>), HasId))[j]
            => i = j

ProcessedNodes == AllObjects(<<input>>)
RestoredNodes == AllObjects(<<result>>)
ReferenceNodes == AllObjects(<<rawData>>)

\* The positions in the reference tree's pre-order of the nodes carrying the id of node.
Matches(node) ==
    IF Has(node, "id")
    THEN {k \in 1..Len(ReferenceNodes) :
            Has(ReferenceNodes[k], "id") /\ ReferenceNodes[k].id = node.id}
    ELSE {}
Max(S) == CHOOSE k \in S : \A l \in S : l <= k

\* Node i of the result is node i of the processed tree with nothing but
\* fixed fields added, and the same number of children.
SameButAdded(i) ==
    /\ \A f \in DOMAIN ProcessedNodes[i] \ {"children"} :
           f \in DOMAIN RestoredNodes[i] /\ RestoredNodes[i][f] = ProcessedNodes[i][f]
    /\ DOMAIN RestoredNodes[i] \ DOMAIN ProcessedNodes[i] \subseteq positionProps
    /\ Has(ProcessedNodes[i], "children") =>
           /\ Has(RestoredNodes[i], "children")
           /\ Len(RestoredNodes[i].children) = Len(ProcessedNodes[i].children)

\* Node i of the result holds every fixed field that reference node k defines
\* and processed node i does not, with the reference's value.
CopiedFrom(i, k) ==
    \A f \in positionProps :
        (f \in DOMAIN ReferenceNodes[k] /\ f \notin DOMAIN ProcessedNodes[i]) =>
            f \in DOMAIN RestoredNodes[i] /\ RestoredNodes[i][f] = ReferenceNodes[k][f]

\* C11 (as stated): restoring a tree from a reference identical to it returns a
\* tree deep-equal to it.
C11_RestoreFromItself == (Restored /\ rawData = input) => result = input

\* C11 (amended): restoring a tree from a reference identical to it returns a
\* tree deep-equal to it when no two nodes of the tree carry the same id.
C11_RestoreFromItselfDistinctIds ==
    (Restored /\ rawData = input /\ DistinctIds(input)) => result = input

C11_Witness ==
    /\ Restored
    /\ input = ("children" :> <<PlacedB>>) @@ PlacedA
    /\ rawData = input
    /\ result = input

\* C18 (as stated): a processed node receives each fixed field that a reference
\* node of the same id defines and it does not, whichever reference node of
\* that id is taken; nothing else changes.
C18_CopyFromEveryMatch ==
    Restored =>
        /\ Len(RestoredNodes) = Len(ProcessedNodes)
        /\ \A i \in 1..Len(ProcessedNodes) :
               /\ SameButAdded(i)
               /\ \A k \in Matches(ProcessedNodes[i]) : CopiedFrom(i, k)
               /\ Matches(ProcessedNodes[i]) = {} =>
                      DOMAIN RestoredNodes[i] = DOMAIN ProcessedNodes[i]

\* C18 (amended): a processed node receives each fixed field that the last
\* reference node of its id in pre-order defines and it does not, and no other
\* field; fields it already defines, fields outside the fixed set and nodes
\* whose id no reference node carries are unchanged.
C18_CopyFromLastMatch ==
    Restored =>
        /\ Len(RestoredNodes) = Len(ProcessedNodes)
        /\ \A i \in 1..Len(ProcessedNodes) :
               /\ SameButAdded(i)
               /\ Matches(ProcessedNodes[i]) # {} =>
                      /\ CopiedFrom(i, Max(Matches(ProcessedNodes[i])))
                      /\ DOMAIN RestoredNodes[i] \ DOMAIN ProcessedNodes[i]
                             \subseteq DOMAIN ReferenceNodes[Max(Matches(ProcessedNodes[i]))]
               /\ Matches(ProcessedNodes[i]) = {} =>
                      DOMAIN RestoredNodes[i] = DOMAIN ProcessedNodes[i]

C18_Witness ==
    /\ Restored
    /\ input = ("children" :> <<MovedA>>) @@ PlacedB
    /\ rawData = ("children" :> <<PlacedA>>) @@ PlainA
    /\ result = ("children" :> <<[id |-> "a", name |-> "A", x |-> 7, layoutAlign |-> "STRETCH"]>>)
                @@ PlacedB

--------------------------------------------------------------------------
(* Objects by reference.  The metadata and positioning passes copy objects  *)
(* with { ...o } and then write to the copy, so what they leave of their    *)
(* argument depends on which object each write lands on.  heap is the       *)
(* sequence of the objects allocated so far; a field that holds an object   *)
(* the passes copy or write (the payload, its nodes mapping, a nodes entry, *)
(* a node) holds [ref |-> address].  Arrays and the small objects that are  *)
(* only read (a bounding box, a colour, a styles dictionary) are values.    *)

Ref(n) == [ref |-> n]
IsRef(v) == "ref" \in DOMAIN v
Alloc(h, obj) == [heap |-> Append(h, obj), value |-> Ref(Len(h) + 1), threw |-> FALSE]
Held(h, v) == [heap |-> h, value |-> v, threw |-> FALSE]
Thrown(h) == [heap |-> h, value |-> Undefined, threw |-> TRUE]
Without(obj, props) == [f \in (DOMAIN obj) \ props |-> obj[f]]
\* obj[f] = v and delete obj[f] on the object at r.
Put(h, r, f, v) == [h EXCEPT ![r.ref] = (f :> v) @@ @]
Delete(h, r, props) == [h EXCEPT ![r.ref] = Without(@, props)]

\* { ...o }: a new object with the fields of the object at r.
SpreadShared(h, r) == Held(h, r)
Spread(h, r) == Alloc(h, h[r.ref])

RECURSIVE StoreNode(_, _)
RECURSIVE StoreChildren(_, _, _)
RECURSIVE StoreEntries(_, _, _)
RECURSIVE Deref(_, _)
RECURSIVE DerefEach(_, _)
RECURSIVE DerefEntries(_, _)

\* A payload as JSON.parse leaves it: every object at an address of its own.
AllocWithChildren(node, s) == Alloc(s.heap, ("children" :> s.value) @@ node)
StoreChildrenNext(s, rest, acc) == StoreChildren(s.heap, rest, Append(acc, s.value))
StoreChildren(h, children, acc) ==
    IF children = <<>>
    THEN Held(h, acc)
    ELSE StoreChildrenNext(StoreNode(h, Head(children)), Tail(children), acc)
StoreNode(h, node) ==
    IF ~IsObject(node)
    THEN Held(h, node)
    ELSE IF Has(node, "children")
         THEN AllocWithChildren(node, StoreChildren(h, node.children, <<>>))
         ELSE Alloc(h, node)

AllocWithDocument(obj, s) == Alloc(s.heap, ("document" :> s.value) @@ obj)
StoreEntry(h, nodeData) ==
    IF IsObject(nodeData) /\ Has(nodeData, "document")
    THEN AllocWithDocument(nodeData, StoreNode(h, nodeData.document))
    ELSE StoreNode(h, nodeData)
StoreEntriesNext(s, nodeId, rest, acc) ==
    StoreEntries(s.heap, rest, Append(acc, <<nodeId, s.value>>))
StoreEntries(h, entries, acc) ==
    IF entries = <<>>
    THEN Alloc(h, [entries |-> acc])
    ELSE StoreEntriesNext(StoreEntry(h, Head(entries)[2]), Head(entries)[1], Tail(entries), acc)

AllocWithNodes(obj, s) == Alloc(s.heap, ("nodes" :> s.value) @@ obj)
StoreWithNodes(obj, s) ==
    IF Has(obj, "nodes") THEN AllocWithNodes(obj, StoreEntries(s.heap, obj.nodes, <<>>))
    ELSE Alloc(s.heap, obj)
StoreWithDocument(figmaData, s) == StoreWithNodes(("document" :> s.value) @@ figmaData, s)
StoreData(figmaData) ==
    IF ~IsObject(figmaData)
    THEN Held(<<>>, figmaData)
    ELSE IF Has(figmaData, "document")
         THEN StoreWithDocument(figmaData, StoreNode(<<>>, figmaData.document))
         ELSE StoreWithNodes(figmaData, Held(<<>>, JsNull))

\* The value that JSON.stringify would show of what v refers to in h.
DerefField(h, obj, f) ==
    IF f = "children" THEN DerefEach(h, obj[f])
    ELSE IF f = "entries" THEN DerefEntries(h, obj[f])
    ELSE IF f \in {"document", "nodes"} THEN Deref(h, obj[f])
    ELSE obj[f]
DerefObject(h, obj) ==
    IF DOMAIN obj = {"entries"}
    THEN DerefEntries(h, obj.entries)
    ELSE [f \in DOMAIN obj |-> DerefField(h, obj, f)]
Deref(h, v) == IF IsRef(v) THEN DerefObject(h, h[v.ref]) ELSE v
DerefEach(h, children) == [i \in 1..Len(children) |-> Deref(h, children[i])]
DerefEntries(h, entries) ==
    [i \in 1..Len(entries) |-> <<entries[i][1], Deref(h, entries[i][2])>>]

--------------------------------------------------------------------------
(* The metadata pass: removeMetadata, removeNodeMetadata, removeEmptyStyles *)
(* and removeRedundantPositioning of utils/transformFigmaJson.js            *)
(* (lines 932-1226).                                                        *)

TOP_LEVEL_METADATA_TO_REMOVE ==
    {"name", "lastModified", "thumbnailUrl", "version", "role", "editorType", "linkAccess",
     "schemaVersion"}

NODE_METADATA_TO_REMOVE ==
    {"blendMode", "preserveRatio", "targetAspectRatio", "layoutVersion",
     "componentPropertyReferences", "componentPropertyDefinitions", "prototypeStartNodeID",
     "prototypeDevice", "flowStartingPoints", "backgrounds", "prototype", "overrides",
     "variantProperties", "componentId", "componentSetId", "masterComponent", "instances",
     "exportSettings", "reactions", "transitionNodeID", "transitionDuration",
     "transitionEasing", "opacity"}

EMPTY_ARRAYS_TO_REMOVE ==
    {"effects", "interactions", "reactions", "exportSettings", "backgrounds", "strokes",
     "strokeCaps", "strokeJoins", "strokeDashes", "characterStyleOverrides", "lineTypes",
     "lineIndentations"}

\* delete obj[prop] when the test of the field holds.
DeleteIf(obj, prop, test) == IF test THEN Without(obj, {prop}) ELSE obj

WithoutNodeMetadata(obj) == Without(obj, NODE_METADATA_TO_REMOVE)
WithoutEmptyArrays(obj) ==
    Without(obj, {prop \in EMPTY_ARRAYS_TO_REMOVE \cap DOMAIN obj : obj[prop] = <<>>})
WithoutDefaultOpacity(obj) ==
    DeleteIf(obj, "opacity", Has(obj, "opacity") /\ obj.opacity = Scale)
WithoutDefaultStrokeWeight(obj) ==
    DeleteIf(obj, "strokeWeight", Has(obj, "strokeWeight") /\ obj.strokeWeight \in {0, 1})
WithoutDefaultStrokeAlign(obj) ==
    DeleteIf(obj, "strokeAlign", Has(obj, "strokeAlign") /\ obj.strokeAlign = "INSIDE")
WithoutEmptyOverrides(obj) ==
    DeleteIf(obj, "styleOverrideTable",
             Has(obj, "styleOverrideTable") /\ DOMAIN obj.styleOverrideTable = {})
WithoutRenderBounds(obj) ==
    DeleteIf(obj, "absoluteRenderBounds",
             Has(obj, "absoluteBoundingBox") /\ Has(obj, "absoluteRenderBounds"))
WithoutDefaultConstraints(obj) ==
    DeleteIf(obj, "constraints",
             /\ Has(obj, "constraints")
             /\ obj.constraints.vertical = "TOP"
             /\ obj.constraints.horizontal = "LEFT")
WithoutDefaultLayoutAlign(obj) ==
    DeleteIf(obj, "layoutAlign", Has(obj, "layoutAlign") /\ obj.layoutAlign = "INHERIT")
WithoutDefaultLayoutGrow(obj) ==
    DeleteIf(obj, "layoutGrow", Has(obj, "layoutGrow") /\ obj.layoutGrow = 0)
WithoutTransparentBackground(obj) ==
    DeleteIf(obj, "backgroundColor", Has(obj, "backgroundColor") /\ obj.backgroundColor.a = 0)

\* The deletions of removeNodeMetadata on cleanedNode, in the order of the code.
PrunedNode(obj) ==
    WithoutTransparentBackground(WithoutDefaultLayoutGrow(WithoutDefaultLayoutAlign(
    WithoutDefaultConstraints(WithoutRenderBounds(WithoutEmptyOverrides(
    WithoutDefaultStrokeAlign(WithoutDefaultStrokeWeight(WithoutDefaultOpacity(
    WithoutEmptyArrays(WithoutNodeMetadata(obj)))))))))))

RECURSIVE removeNodeMetadata(_, _)
RECURSIVE removeNodeMetadataEach(_, _, _)

Pruned(s) == [s EXCEPT !.heap = [s.heap EXCEPT ![s.value.ref] = PrunedNode(@)]]
WithChildrenOf(s, kids) == [s EXCEPT !.heap = Put(kids.heap, s.value, "children", kids.value)]
\* cleanedNode.children = cleanedNode.children.map(child => removeNodeMetadata(child))
CleanChildren(s) ==
    IF Has(s.heap[s.value.ref], "children")
    THEN WithChildrenOf(s, removeNodeMetadataEach(s.heap, s.heap[s.value.ref].children, <<>>))
    ELSE s

removeNodeMetadata(h, node) ==
    IF ~IsRef(node) THEN Held(h, node) ELSE CleanChildren(Pruned(Spread(h, node)))

removeNodeMetadataNext(s, rest, acc) ==
    removeNodeMetadataEach(s.heap, rest, Append(acc, s.value))
removeNodeMetadataEach(h, children, acc) ==
    IF children = <<>>
    THEN Held(h, acc)
    ELSE removeNodeMetadataNext(removeNodeMetadata(h, Head(children)), Tail(children), acc)

\* if (cleaned[prop] && Object.keys(cleaned[prop]).length === 0) delete cleaned[prop]
DropAlways(obj, prop) == Without(obj, {prop})
DropEmpty(obj, prop) == DeleteIf(obj, prop, Has(obj, prop) /\ DOMAIN obj[prop] = {})

EmptyStylesDropped(s) ==
    [s EXCEPT !.heap = [s.heap EXCEPT ![s.value.ref] =
        DropEmpty(DropEmpty(DropEmpty(@, "styles"), "components"), "componentSets")]]
removeEmptyStyles(h, data) == EmptyStylesDropped(Spread(h, data))

RECURSIVE cleanPositioning(_, _)
RECURSIVE cleanPositioningEach(_, _, _)

\* relativeTransform removed only from a node whose size is already gone.
WithoutTransformOfSized(obj) ==
    DeleteIf(obj, "relativeTransform",
             Has(obj, "relativeTransform") /\ Has(obj, "absoluteBoundingBox")
             /\ ~Has(obj, "size"))
WithoutTransform(obj) ==
    DeleteIf(obj, "relativeTransform",
             Has(obj, "relativeTransform") /\ Has(obj, "absoluteBoundingBox"))
WithoutSize(obj) ==
    DeleteIf(obj, "size",
             /\ Has(obj, "size") /\ Has(obj, "absoluteBoundingBox")
             /\ obj.size.x = obj.absoluteBoundingBox.width
             /\ obj.size.y = obj.absoluteBoundingBox.height)
Positioned(s) ==
    [s EXCEPT !.heap = [s.heap EXCEPT ![s.value.ref] = WithoutSize(WithoutTransform(@))]]
PositionChildren(s) ==
    IF Has(s.heap[s.value.ref], "children")
    THEN WithChildrenOf(s, cleanPositioningEach(s.heap, s.heap[s.value.ref].children, <<>>))
    ELSE s

cleanPositioning(h, node) ==
    IF ~IsRef(node) THEN Held(h, node) ELSE PositionChildren(Positioned(Spread(h, node)))

cleanPositioningNext(s, rest, acc) == cleanPositioningEach(s.heap, rest, Append(acc, s.value))
cleanPositioningEach(h, children, acc) ==
    IF children = <<>>
    THEN Held(h, acc)
    ELSE cleanPositioningNext(cleanPositioning(h, Head(children)), Tail(children), acc)

RECURSIVE PositionEntries(_, _)

\* cleaned.nodes[nodeId].document = cleanPositioning(cleaned.nodes[nodeId].document),
\* a write to the entry the mapping holds.
EntryHasDocumentAt(h, nodeData) ==
    IsRef(nodeData) /\ Has(h[nodeData.ref], "document") /\ Truthy(h[nodeData.ref].document)
WithDocumentOf(nodeData, doc) == Put(doc.heap, nodeData, "document", doc.value)
PositionEntry(h, nodeData) ==
    IF EntryHasDocumentAt(h, nodeData)
    THEN WithDocumentOf(nodeData, cleanPositioning(h, h[nodeData.ref].document))
    ELSE h
PositionEntries(h, entries) ==
    IF entries = <<>>
    THEN h
    ELSE PositionEntries(PositionEntry(h, Head(entries)[2]), Tail(entries))

HasTruthy(obj, f) == Has(obj, f) /\ Truthy(obj[f])

PositionNodes(s) ==
    IF HasTruthy(s.heap[s.value.ref], "nodes")
    THEN [s EXCEPT !.heap = PositionEntries(s.heap, s.heap[s.heap[s.value.ref].nodes.ref].entries)]
    ELSE s
WithDocumentAt(s, doc) == [s EXCEPT !.heap = Put(doc.heap, s.value, "document", doc.value)]
PositionDocument(s) ==
    IF HasTruthy(s.heap[s.value.ref], "document")
    THEN WithDocumentAt(s, cleanPositioning(s.heap, s.heap[s.value.ref].document))
    ELSE s
removeRedundantPositioning(h, data) == PositionDocument(PositionNodes(Spread(h, data)))

\* const { preserveStyles = false, preserveComponents = false, preservePositioning = true } = options
Option(options, name, default) == IF Has(options, name) THEN options[name] ELSE default

TopLevelRemoved(s) == [s EXCEPT !.heap = Delete(s.heap, s.value, TOP_LEVEL_METADATA_TO_REMOVE)]

RECURSIVE CleanEntries(_, _, _)

\* cleanedNodes[nodeId] = nodeData.document
\*     ? { ...nodeData, document: removeNodeMetadata(nodeData.document) }
\*     : removeNodeMetadata(nodeData)
EntryWithDocument(nodeData, doc) ==
    Alloc(doc.heap, ("document" :> doc.value) @@ doc.heap[nodeData.ref])
CleanEntry(h, nodeData) ==
    IF nodeData = JsNull
    THEN Thrown(h)
    ELSE IF EntryHasDocumentAt(h, nodeData)
         THEN EntryWithDocument(nodeData, removeNodeMetadata(h, h[nodeData.ref].document))
         ELSE removeNodeMetadata(h, nodeData)
CleanEntriesNext(s, nodeId, rest, acc) ==
    IF s.threw THEN s ELSE CleanEntries(s.heap, rest, Append(acc, <<nodeId, s.value>>))
CleanEntries(h, entries, acc) ==
    IF entries = <<>>
    THEN Alloc(h, [entries |-> acc])
    ELSE CleanEntriesNext(CleanEntry(h, Head(entries)[2]), Head(entries)[1], Tail(entries), acc)

\* cleaned.nodes = cleanedNodes
WithNodesAt(s, cleanedNodes) ==
    IF cleanedNodes.threw
    THEN Thrown(cleanedNodes.heap)
    ELSE [s EXCEPT !.heap = Put(cleanedNodes.heap, s.value, "nodes", cleanedNodes.value)]
NodesCleaned(s) ==
    IF HasTruthy(s.heap[s.value.ref], "nodes")
    THEN WithNodesAt(s, CleanEntries(s.heap, s.heap[s.heap[s.value.ref].nodes.ref].entries, <<>>))
    ELSE s
DocumentCleaned(s) ==
    IF ~s.threw /\ HasTruthy(s.heap[s.value.ref], "document")
    THEN WithDocumentAt(s, removeNodeMetadata(s.heap, s.heap[s.value.ref].document))
    ELSE s
StylesCleaned(s, options) ==
    IF ~s.threw /\ ~Option(options, "preserveStyles", FALSE)
    THEN removeEmptyStyles(s.heap, s.value)
    ELSE s
ComponentsCleaned(s, options) ==
    IF ~s.threw /\ ~Option(options, "preserveComponents", FALSE)
    THEN [s EXCEPT !.heap = Delete(s.heap, s.value, {"components", "componentSets"})]
    ELSE s
PositioningCleaned(s, options) ==
    IF ~s.threw /\ ~Option(options, "preservePositioning", TRUE)
    THEN removeRedundantPositioning(s.heap, s.value)
    ELSE s

removeMetadata(h, figmaData, options) ==
    IF ~IsRef(figmaData)
    THEN Held(h, figmaData)
    ELSE PositioningCleaned(ComponentsCleaned(StylesCleaned(
             DocumentCleaned(NodesCleaned(TopLevelRemoved(Spread(h, figmaData)))),
             options), options), options)

--------------------------------------------------------------------------
(* SpecClean: one call of removeMetadata(figmaData, options).               *)

MaxCleanNodes == 2

ClearBlack == [r |-> 0, g |-> 0, b |-> 0, a |-> 0]
IdentityTransform == << <<1, 0, 0>>, <<0, 1, 0>> >>

\* A node whose listed fields are all empty or default.
DefaultFrame ==
    [id |-> "1", name |-> "Frame", type |-> "FRAME", blendMode |-> "PASS_THROUGH",
     effects |-> <<>>, strokes |-> <<>>, reactions |-> <<>>, opacity |-> Scale,
     strokeWeight |-> 1, strokeAlign |-> "INSIDE", styleOverrideTable |-> <<>>,
     absoluteBoundingBox |-> BoxAt, absoluteRenderBounds |-> BoxAt,
     constraints |-> [vertical |-> "TOP", horizontal |-> "LEFT"],
     layoutAlign |-> "INHERIT", layoutGrow |-> 0, backgroundColor |-> ClearBlack,
     relativeTransform |-> IdentityTransform, size |-> [x |-> 10, y |-> 20]]

\* A node whose listed fields are all non-empty or non-default.
CustomCard ==
    [id |-> "2", name |-> "Card", type |-> "RECTANGLE",
     effects |-> <<[type |-> "DROP_SHADOW"]>>, strokes |-> <<SolidWhite>>,
     reactions |-> <<[action |-> "NAVIGATE"]>>, exportSettings |-> <<[format |-> "PNG"]>>,
     backgrounds |-> <<SolidWhite>>, opacity |-> Scale \div 2,
     strokeWeight |-> 2, strokeAlign |-> "CENTER",
     styleOverrideTable |-> [bold |-> [fontWeight |-> 700]],
     absoluteRenderBounds |-> BoxAt,
     constraints |-> [vertical |-> "BOTTOM", horizontal |-> "LEFT"],
     layoutAlign |-> "STRETCH", layoutGrow |-> 1, backgroundColor |-> White,
     relativeTransform |-> IdentityTransform, size |-> [x |-> 5, y |-> 5]]

ResizedBox ==
    [id |-> "3", name |-> "Box", type |-> "RECTANGLE", strokeWeight |-> 0,
     absoluteBoundingBox |-> BoxAt, size |-> [x |-> 5, y |-> 20]]

PlainText == [id |-> "4", name |-> "Text", type |-> "TEXT", characters |-> "Hi"]

CleanProfiles == {DefaultFrame, CustomCard, ResizedBox, PlainText}
CleanParents == {DefaultFrame, CustomCard}

RECURSIVE CleanTreesOfSize(_)
RECURSIVE CleanForestsOfSize(_)
CleanTreesOfSize(n) ==
    IF n = 1
    THEN CleanProfiles \cup {JsNull}
    ELSE {("children" :> f) @@ p : p \in CleanParents, f \in CleanForestsOfSize(n - 1)}
CleanForestsOfSize(m) ==
    IF m = 0
    THEN {<<>>}
    ELSE UNION {{<<t>> \o f : t \in CleanTreesOfSize(k), f \in CleanForestsOfSize(m - k)} :
                k \in 1..m}

CleanTrees == UNION {CleanTreesOfSize(n) : n \in 1..MaxCleanNodes}
CleanObjects == CleanTrees \ {JsNull}

FileMeta == [name |-> "File", version |-> "42", lastModified |-> "2024-01-01"]

\* The entries of a nodes mapping: with a document, a bare node, or null.
CleanEntryValues == {[document |-> t] : t \in CleanObjects} \cup CleanObjects \cup {JsNull}
SecondEntries == {<<>>, << <<"3:4", [document |-> PlainText]>> >>, << <<"3:4", JsNull>> >>}

\* The dictionaries at the root: absent, empty or holding one definition.
Dictionaries ==
    {d \in [{"styles", "components", "componentSets"} -> {"absent", "empty", "one"}] : TRUE}
DictionaryValue(kind) == IF kind = "empty" THEN <<>> ELSE [s1 |-> [name |-> "Primary"]]
WithDictionaries(obj, d) ==
    [f \in {k \in DOMAIN d : d[k] # "absent"} |-> DictionaryValue(d[f])] @@ obj

CleanPayloads ==
    {("document" :> t) @@ FileMeta : t \in CleanTrees}
    \cup {("nodes" :> (<< <<"1:2", e>> >> \o more)) @@ FileMeta :
            e \in CleanEntryValues, more \in SecondEntries}
    \cup {WithDictionaries([document |-> PlainText], d) : d \in Dictionaries}
    \cup {JsNull}

OptionNames == {"preserveStyles", "preserveComponents", "preservePositioning"}
CleanOptionSets == UNION {[S -> BOOLEAN] : S \in SUBSET OptionNames}

InitClean ==
    /\ NoServer
    /\ pc = "clean"
    /\ rawData \in CleanPayloads
    /\ heap = StoreData(rawData).heap
    /\ input = StoreData(rawData).value
    /\ cleanOptions \in CleanOptionSets
    /\ result = JsNull
    /\ prevCall = JsNull /\ styles = EmptyDict /\ internLog = <<>>
    /\ colorCall = JsNull /\ hexOut = JsNull /\ fill = JsNull /\ css = JsNull
    /\ optimizedData = JsNull

\* cleaned = removeMetadata(figmaData, options)
Clean ==
    /\ pc = "clean"
    /\ heap' = removeMetadata(heap, input, cleanOptions).heap
    /\ result' = [threw |-> removeMetadata(heap, input, cleanOptions).threw,
                  value |-> removeMetadata(heap, input, cleanOptions).value]
    /\ pc' = "cleaned"
    /\ UNCHANGED <<requests, downloads, rawData, input, cleanOptions, prevCall, styles, internLog, colorCall,
                   hexOut, fill, css, optimizedData>>

NextClean == Clean

SpecClean == InitClean /\ [][NextClean]_vars

Cleaned == pc = "cleaned"
CleanReturns == Cleaned /\ ~result.threw
CleanedData == Deref(heap, result.value)

\* Every object of the argument is, field for field, what it was before the call.
InputUnchanged ==
    /\ SubSeq(heap, 1, Len(StoreData(rawData).heap)) = StoreData(rawData).heap
    /\ Deref(heap, input) = rawData

RECURSIVE TreeShape(_)
\* The ids of a tree in their nesting and order; an entry that is no object is itself.
TreeShape(node) ==
    IF ~IsObject(node)
    THEN node
    ELSE IF Has(node, "children")
         THEN [id |-> IdOrUnknown(node),
               children |-> [i \in 1..Len(node.children) |-> TreeShape(node.children[i])]]
         ELSE [id |-> IdOrUnknown(node)]
EntryRoot(nodeData) ==
    IF IsObject(nodeData) /\ Has(nodeData, "document") THEN nodeData.document ELSE nodeData
\* The trees of a payload: its document, then the roots of its nodes entries.
CleanRoots(data) ==
    IF ~IsObject(data)
    THEN <<>>
    ELSE (IF Has(data, "document") THEN <<data.document>> ELSE <<>>)
         \o (IF Has(data, "nodes")
             THEN [i \in 1..Len(data.nodes) |-> EntryRoot(data.nodes[i][2])]
             ELSE <<>>)
ShapesOf(roots) == [i \in 1..Len(roots) |-> TreeShape(roots[i])]

\* C12: removeMetadata leaves every object reachable from its argument with
\* the fields and values it had, whatever the shape and the options, and the
\* tree it returns has the nodes of the input in the same nesting and order.
C12_InputUnchanged ==
    Cleaned =>
        /\ InputUnchanged
        /\ CleanReturns => ShapesOf(CleanRoots(CleanedData)) = ShapesOf(CleanRoots(rawData))

C12_Witness ==
    /\ CleanReturns
    /\ rawData = ("nodes" :> << <<"1:2", [document |-> ("children" :> <<CustomCard>>) @@ DefaultFrame]>>,
                               <<"3:4", [document |-> PlainText]>> >>) @@ FileMeta
    /\ cleanOptions = [preserveStyles |-> FALSE, preserveComponents |-> FALSE,
                       preservePositioning |-> FALSE]
    /\ InputUnchanged
    /\ ~Has(CleanedData.nodes[1][2].document, "strokeWeight")
    /\ ~Has(CleanedData.nodes[1][2].document, "size")

UncleanedNodes == AllObjects(CleanRoots(rawData))
CleanedNodes == AllObjects(CleanRoots(CleanedData))

DefaultValuedFields ==
    {"opacity", "strokeWeight", "strokeAlign", "layoutAlign", "layoutGrow", "backgroundColor",
     "constraints"}
IsDefaultValue(f, v) ==
    CASE f = "opacity" -> v = Scale
      [] f = "strokeWeight" -> v \in {0, 1}
      [] f = "strokeAlign" -> v = "INSIDE"
      [] f = "layoutAlign" -> v = "INHERIT"
      [] f = "layoutGrow" -> v = 0
      [] f = "backgroundColor" -> v.a = 0
      [] f = "constraints" -> v.vertical = "TOP" /\ v.horizontal = "LEFT"
      [] OTHER -> v = <<>>

\* C19: on every node, a listed array field is removed when it is empty and a
\* listed scalar field when it holds its default; a non-empty array or a
\* non-default value of any of these fields is kept unchanged.
C19_ConditionalPruning ==
    CleanReturns =>
        /\ Len(CleanedNodes) = Len(UncleanedNodes)
        /\ \A i \in 1..Len(UncleanedNodes) :
               \A f \in (DOMAIN UncleanedNodes[i]) \cap (EMPTY_ARRAYS_TO_REMOVE \cup DefaultValuedFields) :
                   IF IsDefaultValue(f, UncleanedNodes[i][f])
                   THEN f \notin DOMAIN CleanedNodes[i]
                   ELSE /\ f \in DOMAIN CleanedNodes[i]
                        /\ CleanedNodes[i][f] = UncleanedNodes[i][f]

PreserveStyles == Option(cleanOptions, "preserveStyles", FALSE)
PreserveComponents == Option(cleanOptions, "preserveComponents", FALSE)
IsEmptyDictionary(f) == DOMAIN rawData[f] = {}
Retained(f) == Has(CleanedData, f) /\ CleanedData[f] = rawData[f]
Dropped(f) == ~Has(CleanedData, f)

\* C20 (as stated): styles is dropped only if empty and preserveStyles is
\* false, components and componentSets only if empty and preserveComponents
\* is false; otherwise the dictionary is retained.
C20_DroppedOnlyIfEmpty ==
    (CleanReturns /\ IsObject(rawData)) =>
        /\ Has(rawData, "styles") =>
               IF IsEmptyDictionary("styles") /\ ~PreserveStyles
               THEN Dropped("styles") ELSE Retained("styles")
        /\ \A f \in {"components", "componentSets"} :
               Has(rawData, f) =>
                   IF IsEmptyDictionary(f) /\ ~PreserveComponents
                   THEN Dropped(f) ELSE Retained(f)

\* C20 (amended): styles is dropped exactly when it is empty and
\* preserveStyles is false; components and componentSets are dropped whenever
\* preserveComponents is false, and also when they are empty and
\* preserveStyles is false; in every other case the dictionary is retained.
C20_DictionariesByOption ==
    (CleanReturns /\ IsObject(rawData)) =>
        /\ Has(rawData, "styles") =>
               IF IsEmptyDictionary("styles") /\ ~PreserveStyles
               THEN Dropped("styles") ELSE Retained("styles")
        /\ \A f \in {"components", "componentSets"} :
               Has(rawData, f) =>
                   IF ~PreserveComponents \/ (IsEmptyDictionary(f) /\ ~PreserveStyles)
                   THEN Dropped(f) ELSE Retained(f)
        /\ \A f \in {"styles", "components", "componentSets"} :
               ~Has(rawData, f) => Dropped(f)

C20_Witness ==
    /\ CleanReturns
    /\ rawData = [document |-> PlainText, styles |-> [s1 |-> [name |-> "Primary"]],
                  components |-> [s1 |-> [name |-> "Primary"]], componentSets |-> <<>>]
    /\ cleanOptions = [preserveComponents |-> TRUE]
    /\ CleanedData = [document |-> PlainText, styles |-> [s1 |-> [name |-> "Primary"]],
                      components |-> [s1 |-> [name |-> "Primary"]]]

--------------------------------------------------------------------------
(* The positioning pass: convertNodeToRelative and                          *)
(* convertToRelativePositioning of utils/convertToRelativePositioning.js    *)
(* (lines 12-254), on objects by reference.  Lengths are whole pixels.      *)

shouldUseFlexboxByMode(node) ==
    Has(node, "layoutMode") /\ node.layoutMode \in {"HORIZONTAL", "VERTICAL"}
shouldUseFlexbox(node) ==
    \/ Has(node, "layoutMode") /\ node.layoutMode \in {"HORIZONTAL", "VERTICAL"}
    \/ Has(node, "children") /\ Len(node.children) > 1

\* (n / d * 100).toFixed(2): the quotient in hundredths of a percent, rounded
\* to the nearest, with the sign of n in front.
Hundredths(n, d) == (2 * 10000 * (IF n < 0 THEN -n ELSE n) + d) \div (2 * d)
TwoDigits(k) == IF k < 10 THEN "0" \o ToString(k) ELSE ToString(k)
toFixed2(n, d) ==
    (IF n < 0 THEN "-" ELSE "") \o ToString(Hundredths(n, d) \div 100) \o "."
    \o TwoDigits(Hundredths(n, d) % 100)

HorizontalPercents(bounds, parentBounds) ==
    IF parentBounds.width > 0
    THEN [leftPercent |-> toFixed2(bounds.x - parentBounds.x, parentBounds.width),
          widthPercent |-> toFixed2(bounds.width, parentBounds.width)]
    ELSE <<>>
VerticalPercents(bounds, parentBounds) ==
    IF parentBounds.height > 0
    THEN [topPercent |-> toFixed2(bounds.y - parentBounds.y, parentBounds.height),
          heightPercent |-> toFixed2(bounds.height, parentBounds.height)]
    ELSE <<>>
RelativeToParent(bounds, parentBounds) ==
    IF parentBounds # JsNull
    THEN HorizontalPercents(bounds, parentBounds) @@ VerticalPercents(bounds, parentBounds)
         @@ [left |-> ToString(bounds.x - parentBounds.x) \o "px",
             top |-> ToString(bounds.y - parentBounds.y) \o "px"]
    ELSE <<>>

calculateRelativePosition(node, parentBounds) ==
    IF ~Has(node, "absoluteBoundingBox")
    THEN <<>>
    ELSE RelativeToParent(node.absoluteBoundingBox, parentBounds)
         @@ [width |-> ToString(node.absoluteBoundingBox.width) \o "px",
             height |-> ToString(node.absoluteBoundingBox.height) \o "px"]

\* alignMap[value] || 'flex-start'
JustifyContent(value) ==
    CASE value = "CENTER" -> "center"
      [] value = "MAX" -> "flex-end"
      [] value = "SPACE_BETWEEN" -> "space-between"
      [] OTHER -> "flex-start"
AlignItems(value) ==
    CASE value = "CENTER" -> "center"
      [] value = "MAX" -> "flex-end"
      [] OTHER -> "flex-start"

\* node.paddingTop || 0, and so on, in the order top, right, bottom, left.
OrZero(node, f) == IF Has(node, f) THEN node[f] ELSE 0
PaddingOf(node) ==
    <<OrZero(node, "paddingTop"), OrZero(node, "paddingRight"),
      OrZero(node, "paddingBottom"), OrZero(node, "paddingLeft")>>
PaddingCss(padding) ==
    IF \A i \in 1..4 : padding[i] = padding[1]
    THEN ToString(padding[1]) \o "px"
    ELSE ToString(padding[1]) \o "px " \o ToString(padding[2]) \o "px "
         \o ToString(padding[3]) \o "px " \o ToString(padding[4]) \o "px"

generateFlexboxCSS(node) ==
    IF ~shouldUseFlexbox(node)
    THEN <<>>
    ELSE [display |-> "flex",
          flexDirection |-> IF Has(node, "layoutMode") /\ node.layoutMode = "HORIZONTAL"
                            THEN "row" ELSE "column"]
         @@ (IF Has(node, "primaryAxisAlignItems")
             THEN [justifyContent |-> JustifyContent(node.primaryAxisAlignItems)] ELSE <<>>)
         @@ (IF Has(node, "counterAxisAlignItems")
             THEN [alignItems |-> AlignItems(node.counterAxisAlignItems)] ELSE <<>>)
         @@ (IF OrZero(node, "itemSpacing") # 0
             THEN [gap |-> ToString(node.itemSpacing) \o "px"] ELSE <<>>)
         @@ (IF \E i \in 1..4 : PaddingOf(node)[i] # 0
             THEN [padding |-> PaddingCss(PaddingOf(node))] ELSE <<>>)

\* css.large: { ...flexCSS, position, width, height } and, for a node that is
\* no flex container and has both percentages, left and top.
LargeCss(node, relativePos) ==
    (IF ~shouldUseFlexbox(node) /\ Has(relativePos, "leftPercent") /\ Has(relativePos, "topPercent")
     THEN [left |-> relativePos.leftPercent \o "%", top |-> relativePos.topPercent \o "%"]
     ELSE <<>>)
    @@ [position |-> IF shouldUseFlexbox(node) THEN "relative" ELSE "absolute",
        width |-> IF Has(relativePos, "widthPercent")
                  THEN relativePos.widthPercent \o "%" ELSE relativePos.width,
        height |-> IF Has(relativePos, "heightPercent")
                   THEN relativePos.heightPercent \o "%" ELSE relativePos.height]
    @@ generateFlexboxCSS(node)

ResponsiveCss(node, relativePos) ==
    [large |-> LargeCss(node, relativePos),
     medium |-> [position |-> "relative", width |-> "100%", height |-> "auto",
                 minHeight |-> relativePos.height],
     small |-> [position |-> "relative", width |-> "100%", height |-> "auto",
                minHeight |-> "calc(" \o relativePos.height \o " * 0.8)"]]

generateResponsiveCSS(node, parentBounds) ==
    ResponsiveCss(node, calculateRelativePosition(node, parentBounds))

\* convertedNode.responsiveStyles = ...; convertedNode.originalBounds = ...;
\* delete absoluteBoundingBox, relativeTransform, x, y
RelativeNodeKeepingXY(obj, parentBounds) ==
    IF Has(obj, "absoluteBoundingBox")
    THEN Without(("responsiveStyles" :> generateResponsiveCSS(obj, parentBounds))
                 @@ ("originalBounds" :> obj.absoluteBoundingBox) @@ obj,
                 {"absoluteBoundingBox", "relativeTransform"})
    ELSE obj
RelativeNode(obj, parentBounds) ==
    IF Has(obj, "absoluteBoundingBox")
    THEN Without(("responsiveStyles" :> generateResponsiveCSS(obj, parentBounds))
                 @@ ("originalBounds" :> obj.absoluteBoundingBox) @@ obj,
                 {"absoluteBoundingBox", "relativeTransform", "x", "y"})
    ELSE obj

\* node.absoluteBoundingBox || parentBounds
BoundsOf(obj, parentBounds) ==
    IF Has(obj, "absoluteBoundingBox") THEN obj.absoluteBoundingBox ELSE parentBounds

RECURSIVE convertNodeToRelative(_, _, _)
RECURSIVE convertNodeToRelativeEach(_, _, _, _)

Relative(s, parentBounds) ==
    [s EXCEPT !.heap = [s.heap EXCEPT ![s.value.ref] = RelativeNode(@, parentBounds)]]
RelativeChildren(s, currentBounds) ==
    IF Has(s.heap[s.value.ref], "children")
    THEN WithChildrenOf(s, convertNodeToRelativeEach(s.heap, s.heap[s.value.ref].children,
                                                     currentBounds, <<>>))
    ELSE s

convertNodeToRelative(h, node, parentBounds) ==
    IF ~IsRef(node)
    THEN Held(h, node)
    ELSE RelativeChildren(Relative(Spread(h, node), parentBounds),
                          BoundsOf(h[node.ref], parentBounds))

convertNodeToRelativeNext(s, rest, currentBounds, acc) ==
    convertNodeToRelativeEach(s.heap, rest, currentBounds, Append(acc, s.value))
convertNodeToRelativeEach(h, children, currentBounds, acc) ==
    IF children = <<>>
    THEN Held(h, acc)
    ELSE convertNodeToRelativeNext(convertNodeToRelative(h, Head(children), currentBounds),
                                   Tail(children), currentBounds, acc)

RECURSIVE ConvertEntries(_, _, _)

\* converted.nodes[nodeId] = ..., a write to the mapping that converted
\* shares with figmaData.
SetEntry(s, nodes, i) ==
    IF s.threw THEN s
    ELSE [s EXCEPT !.heap = [s.heap EXCEPT ![nodes.ref].entries[i][2] = s.value],
                   !.value = nodes]
ConvertEntry(h, nodeData) ==
    IF nodeData = JsNull
    THEN Thrown(h)
    ELSE IF EntryHasDocumentAt(h, nodeData)
         THEN EntryWithDocument(nodeData,
                                convertNodeToRelative(h, h[nodeData.ref].document, JsNull))
         ELSE convertNodeToRelative(h, nodeData, JsNull)
ConvertEntriesFrom(s, nodes, i) == IF s.threw THEN s ELSE ConvertEntries(s.heap, nodes, i)
\* Object.keys(converted.nodes).forEach, from key i on.
ConvertEntries(h, nodes, i) ==
    IF i > Len(h[nodes.ref].entries)
    THEN Held(h, nodes)
    ELSE ConvertEntriesFrom(SetEntry(ConvertEntry(h, h[nodes.ref].entries[i][2]), nodes, i),
                            nodes, i + 1)

NodesConvertedAt(s, done) == IF done.threw THEN done ELSE [s EXCEPT !.heap = done.heap]
NodesConverted(s) ==
    IF HasTruthy(s.heap[s.value.ref], "nodes")
    THEN NodesConvertedAt(s, ConvertEntries(s.heap, s.heap[s.value.ref].nodes, 1))
    ELSE s
DocumentConverted(s) ==
    IF ~s.threw /\ HasTruthy(s.heap[s.value.ref], "document")
    THEN WithDocumentAt(s, convertNodeToRelative(s.heap, s.heap[s.value.ref].document, JsNull))
    ELSE s

convertToRelativePositioning(h, figmaData) ==
    IF ~IsRef(figmaData)
    THEN Held(h, figmaData)
    ELSE DocumentConverted(NodesConverted(Spread(h, figmaData)))

--------------------------------------------------------------------------
(* SpecRelative: one call of convertToRelativePositioning(figmaData).       *)

MaxRelativeNodes == 3

FlexRow ==
    [id |-> "1", name |-> "Row", type |-> "FRAME", layoutMode |-> "HORIZONTAL",
     primaryAxisAlignItems |-> "CENTER", counterAxisAlignItems |-> "MAX", itemSpacing |-> 8,
     paddingTop |-> 4, paddingRight |-> 4, paddingBottom |-> 4, paddingLeft |-> 4,
     absoluteBoundingBox |-> [x |-> 0, y |-> 0, width |-> 200, height |-> 100],
     relativeTransform |-> IdentityTransform, x |-> 0, y |-> 0]
FlexColumn ==
    [id |-> "2", name |-> "Column", type |-> "FRAME", layoutMode |-> "VERTICAL",
     primaryAxisAlignItems |-> "SPACE_AROUND", paddingLeft |-> 2,
     absoluteBoundingBox |-> [x |-> 20, y |-> 10, width |-> 60, height |-> 30]]
Canvas ==
    [id |-> "3", name |-> "Canvas", type |-> "FRAME",
     absoluteBoundingBox |-> [x |-> 10, y |-> 20, width |-> 100, height |-> 50]]
LooseGroup == [id |-> "4", name |-> "Group", type |-> "GROUP", x |-> 5, y |-> 6]
FlatLine ==
    [id |-> "5", name |-> "Line", type |-> "LINE",
     absoluteBoundingBox |-> [x |-> 0, y |-> 0, width |-> 0, height |-> 50]]
Leaf ==
    [id |-> "6", name |-> "Leaf", type |-> "RECTANGLE", itemSpacing |-> 3,
     absoluteBoundingBox |-> [x |-> 5, y |-> 45, width |-> 50, height |-> 25],
     relativeTransform |-> IdentityTransform]

RelativeProfiles == {FlexRow, FlexColumn, Canvas, LooseGroup, FlatLine, Leaf}
RelativeParents == {FlexRow, Canvas, LooseGroup, FlatLine}

RECURSIVE RelativeTreesOfSize(_)
RECURSIVE RelativeForestsOfSize(_)
RelativeTreesOfSize(n) ==
    IF n = 1
    THEN RelativeProfiles \cup {JsNull}
    ELSE {("children" :> f) @@ p : p \in RelativeParents, f \in RelativeForestsOfSize(n - 1)}
RelativeForestsOfSize(m) ==
    IF m = 0
    THEN {<<>>}
    ELSE UNION {{<<t>> \o f : t \in RelativeTreesOfSize(k), f \in RelativeForestsOfSize(m - k)} :
                k \in 1..m}

RelativeTrees == UNION {RelativeTreesOfSize(n) : n \in 1..MaxRelativeNodes}

RelativePayloads ==
    {[name |-> "File", document |-> t] : t \in RelativeTrees}
    \cup {[nodes |-> << <<"1:2", [document |-> t]>> >>] : t \in RelativeTrees \ {JsNull}}
    \cup {[nodes |-> << <<"1:2", t>>, <<"3:4", [document |-> Leaf]>> >>] : t \in RelativeTrees}
    \cup {JsNull}

InitRelative ==
    /\ NoServer
    /\ pc = "convert"
    /\ rawData \in RelativePayloads
    /\ heap = StoreData(rawData).heap
    /\ input = StoreData(rawData).value
    /\ result = JsNull
    /\ prevCall = JsNull /\ styles = EmptyDict /\ internLog = <<>>
    /\ colorCall = JsNull /\ hexOut = JsNull /\ fill = JsNull /\ css = JsNull
    /\ optimizedData = JsNull /\ cleanOptions = JsNull

\* converted = convertToRelativePositioning(figmaData)
ConvertPositions ==
    /\ pc = "convert"
    /\ heap' = convertToRelativePositioning(heap, input).heap
    /\ result' = [threw |-> convertToRelativePositioning(heap, input).threw,
                  value |-> convertToRelativePositioning(heap, input).value]
    /\ pc' = "converted"
    /\ UNCHANGED <<requests, downloads, rawData, input, cleanOptions, prevCall, styles, internLog, colorCall,
                   hexOut, fill, css, optimizedData>>

NextRelative == ConvertPositions

SpecRelative == InitRelative /\ [][NextRelative]_vars

Converted == pc = "converted"

\* C14: convertToRelativePositioning leaves every object reachable from its
\* argument with the fields and values it had, for the document shape and
\* for the nodes shape.
C14_ConvertLeavesInput == Converted => Deref(heap, input) = rawData

--------------------------------------------------------------------------
(* The typography extractor: extractTypoItems of unnamed/part_001           *)
(* (lines 222-366).  An id is the sequence of its parts between colons,     *)
(* "5532:7" being <<"5532", "7">>, and a fontPostScriptName the sequence of *)
(* its parts between hyphens, so that startsWith and split are computed.    *)

\* titleChild.id.startsWith("5532:")
startsWithMobilePrefix(id) == Len(id) >= 2 /\ id[1] = "5532"

\* style.fontStyle || style.fontPostScriptName?.split('-')[1] || ""
fontStyleOf(style) ==
    IF Has(style, "fontStyle") /\ style.fontStyle # ""
    THEN style.fontStyle
    ELSE IF Has(style, "fontPostScriptName") /\ Len(style.fontPostScriptName) >= 2
              /\ style.fontPostScriptName[2] # ""
         THEN style.fontPostScriptName[2]
         ELSE ""

HasLineHeight(style) ==
    /\ Has(style, "lineHeightPx") /\ style.lineHeightPx # 0
    /\ Has(style, "fontSize") /\ style.fontSize # 0

\* The line height of a structured entry is the number lineHeightPx/fontSize,
\* that of a direct text node the string `${lineHeightPx}/${fontSize}`.
lineHeightOf(style, asRatio) ==
    IF asRatio
    THEN Num((style.lineHeightPx * Scale) \div style.fontSize)
    ELSE Str(ToString(style.lineHeightPx) \o "/" \o ToString(style.fontSize))

simplifiedStyle(style, asRatio) ==
    (IF HasLineHeight(style) THEN [lineHeight |-> lineHeightOf(style, asRatio)] ELSE <<>>)
    @@ [f \in {"fontFamily", "fontWeight", "fontSize", "letterSpacing"} \cap DOMAIN style |-> style[f]]
    @@ [fontStyle |-> fontStyleOf(style)]

styleInfo(entry, style, asRatio) ==
    [label |-> entry.name,
     style |-> simplifiedStyle(style, asRatio),
     id |-> entry.id,
     device |-> IF startsWithMobilePrefix(entry.id) THEN "mobile" ELSE "desktop"]

\* if (!processedIds.has(id)) { typoStyles.push(styleInfo); processedIds.add(id) }
Collect(acc, entry, style, asRatio) ==
    IF entry.id \in acc.processedIds
    THEN acc
    ELSE [acc EXCEPT !.typoStyles = Append(@, styleInfo(entry, style, asRatio)),
                     !.processedIds = @ \cup {entry.id}]

NamedTitle(child) == Has(child, "name") /\ child.name = "title"
IsTextElement(child) == Has(child, "type") /\ child.type = "TEXT" /\ ~NamedTitle(child)
IsStyleFrame(child) == Has(child, "name") /\ child.name \in {"type-style", "typo-style"}
IsTextNode(child) == Has(child, "type") /\ child.type = "TEXT"

RECURSIVE CollectTitleChildren(_, _, _)
\* titleFrame.children.forEach: the style is that of the first text element
\* beside the title, or the entry's own.
CollectTitleChildren(titleChildren, textElements, acc) ==
    IF titleChildren = <<>>
    THEN acc
    ELSE CollectTitleChildren(Tail(titleChildren), textElements,
             Collect(acc, Head(titleChildren),
                     IF textElements # <<>> THEN textElements[1].style
                     ELSE Head(titleChildren).style,
                     TRUE))

CollectStyleFrame(typeStyle, acc) ==
    IF /\ SelectSeq(typeStyle.children, NamedTitle) # <<>>
       /\ Has(SelectSeq(typeStyle.children, NamedTitle)[1], "children")
    THEN CollectTitleChildren(SelectSeq(typeStyle.children, NamedTitle)[1].children,
                              SelectSeq(typeStyle.children, IsTextElement), acc)
    ELSE acc

RECURSIVE CollectStyleFrames(_, _)
CollectStyleFrames(typeStyleFrames, acc) ==
    IF typeStyleFrames = <<>>
    THEN acc
    ELSE CollectStyleFrames(Tail(typeStyleFrames), CollectStyleFrame(Head(typeStyleFrames), acc))

RECURSIVE CollectTextNodes(_, _)
CollectTextNodes(textNodes, acc) ==
    IF textNodes = <<>>
    THEN acc
    ELSE CollectTextNodes(Tail(textNodes),
                          Collect(acc, Head(textNodes), Head(textNodes).style, FALSE))

\* The body of if (node.name === "typo"); a typo node without children raises.
CollectTypo(node, acc) ==
    IF ~Has(node, "children")
    THEN [acc EXCEPT !.threw = TRUE]
    ELSE IF SelectSeq(node.children, IsStyleFrame) # <<>>
         THEN CollectStyleFrames(SelectSeq(node.children, IsStyleFrame), acc)
         ELSE CollectTextNodes(SelectSeq(node.children, IsTextNode), acc)

RECURSIVE findItems(_, _)
RECURSIVE findItemsEach(_, _)

FindInChildren(node, acc) ==
    IF ~acc.threw /\ Has(node, "children") THEN findItemsEach(node.children, acc) ELSE acc

\* node.name of null raises.
findItems(node, acc) ==
    IF acc.threw
    THEN acc
    ELSE IF node = JsNull
         THEN [acc EXCEPT !.threw = TRUE]
         ELSE FindInChildren(node, IF Has(node, "name") /\ node.name = "typo"
                                   THEN CollectTypo(node, acc)
                                   ELSE acc)

findItemsEach(children, acc) ==
    IF children = <<>>
    THEN acc
    ELSE findItemsEach(Tail(children), findItems(Head(children), acc))

RECURSIVE findInEntries(_, _)
\* for (const nodeId in figmaData.nodes) findItems(node.document ? node.document : node)
findInEntries(entries, acc) ==
    IF entries = <<>>
    THEN acc
    ELSE findInEntries(Tail(entries), findItems(EntryRoot(Head(entries)[2]), acc))

\* The names every object inherits from Object.prototype: groupedStyles[label]
\* is truthy for them although groupedStyles has no such property of its own.
ObjectPrototypeNames ==
    {"constructor", "toString", "toLocaleString", "valueOf", "hasOwnProperty",
     "isPrototypeOf", "propertyIsEnumerable", "__proto__", "__defineGetter__",
     "__defineSetter__", "__lookupGetter__", "__lookupSetter__"}

IndexOfLabel(groupedStyles, label) ==
    {i \in 1..Len(groupedStyles) : groupedStyles[i].label = label}

NewGroup(style) == (style.device :> style.style) @@ [label |-> style.label, desktop |-> JsNull, mobile |-> JsNull]

Inherits(label) == label \in ObjectPrototypeNames

\* if (!groupedStyles[style.label]) groupedStyles[style.label] = {...};
\* groupedStyles[style.label][style.device] = style.style
Group(groupedStyles, style) ==
    IF IndexOfLabel(groupedStyles, style.label) # {}
    THEN [groupedStyles EXCEPT ![CHOOSE i \in IndexOfLabel(groupedStyles, style.label) : TRUE]
                                   [style.device] = style.style]
    ELSE IF Inherits(style.label)
         THEN groupedStyles
         ELSE Append(groupedStyles, NewGroup(style))

RECURSIVE GroupAll(_, _)
GroupAll(typoStyles, groupedStyles) ==
    IF typoStyles = <<>>
    THEN groupedStyles
    ELSE GroupAll(Tail(typoStyles), Group(groupedStyles, Head(typoStyles)))

NothingFound == [typoStyles |-> <<>>, processedIds |-> {}, threw |-> FALSE]

FoundIn(figmaData) ==
    IF Has(figmaData, "nodes") THEN findInEntries(figmaData.nodes, NothingFound) ELSE NothingFound

extractTypoItems(figmaData) ==
    IF FoundIn(figmaData).threw
    THEN Raise
    ELSE Return(GroupAll(FoundIn(figmaData).typoStyles, <<>>))

--------------------------------------------------------------------------
(* SpecTypo: one call of extractTypoItems(figmaData).                       *)

MaxTypoEntries == 2

HeadingStyle ==
    [fontFamily |-> "Inter", fontPostScriptName |-> <<"Inter", "Bold">>, fontWeight |-> 700,
     fontSize |-> 32, letterSpacing |-> 0, lineHeightPx |-> 40]
BodyStyle ==
    [fontFamily |-> "Inter", fontStyle |-> "Regular", fontWeight |-> 400, fontSize |-> 16,
     letterSpacing |-> 0]
SampleStyle ==
    [fontFamily |-> "Roboto", fontStyle |-> "Medium", fontWeight |-> 500, fontSize |-> 20,
     letterSpacing |-> 1, lineHeightPx |-> 30]

TypoIds == {<<"5532", "1">>, <<"5532", "2">>, <<"10", "1">>, <<"55321", "1">>}
TypoLabels == {"h1", "body", "constructor"}

\* A labeled entry: a text layer named by its label.
TypoEntry(id, label) ==
    [id |-> id, name |-> label, type |-> "TEXT",
     style |-> IF label = "body" THEN BodyStyle ELSE HeadingStyle]
TypoEntries == {TypoEntry(id, label) : id \in TypoIds, label \in TypoLabels}
TypoEntryLists == UNION {[1..n -> TypoEntries] : n \in 1..MaxTypoEntries}

Sample == [id |-> <<"10", "9">>, name |-> "sample", type |-> "TEXT", style |-> SampleStyle]
TitleFrame(entries) == [id |-> <<"10", "8">>, name |-> "title", type |-> "FRAME", children |-> entries]
\* The typo components: entries under a title in a style frame, with or
\* without a text element beside the title, or as direct text children.
TypoNodes ==
    {[id |-> <<"10", "7">>, name |-> "typo", type |-> "FRAME", children |-> c] :
        c \in {<<[id |-> <<"10", "6">>, name |-> "type-style", type |-> "FRAME",
                  children |-> <<TitleFrame(e)>> \o more]>> :
                 e \in TypoEntryLists, more \in {<<>>, <<Sample>>}}
              \cup TypoEntryLists}
Page(children) == [id |-> <<"0", "1">>, name |-> "Page", type |-> "CANVAS", children |-> children]

TypoPayloads ==
    {[nodes |-> << <<"1:2", [document |-> Page(<<t>>)]>> >>] : t \in TypoNodes}
    \cup {[nodes |-> << <<"1:2", t>>, <<"3:4", [document |-> Page(<<JsNull>>)]>> >>] : t \in TypoNodes}
    \cup {[document |-> Page(<<t>>)] : t \in TypoNodes}
    \cup {[nodes |-> << <<"1:2", [id |-> <<"10", "7">>, name |-> "typo", type |-> "FRAME"]>> >>]}

InitTypo ==
    /\ NoServer
    /\ pc = "extract"
    /\ rawData \in TypoPayloads
    /\ result = JsNull
    /\ prevCall = JsNull /\ styles = EmptyDict /\ internLog = <<>>
    /\ colorCall = JsNull /\ hexOut = JsNull /\ fill = JsNull /\ css = JsNull
    /\ heap = <<>> /\ input = JsNull /\ cleanOptions = JsNull /\ optimizedData = JsNull

\* typoItems = extractTypoItems(figmaData)
Extract ==
    /\ pc = "extract"
    /\ result' = extractTypoItems(rawData)
    /\ pc' = "extracted"
    /\ UNCHANGED <<requests, downloads, rawData, styles, internLog, prevCall, colorCall, hexOut, fill, css,
                   heap, input, cleanOptions, optimizedData>>

NextTypo == Extract

SpecTypo == InitTypo /\ [][NextTypo]_vars

Extracted == pc = "extracted" /\ ~result.threw
\* The labeled entries the traversal found, in the order it found them.
Found == FoundIn(rawData).typoStyles
Tokens == result.value
FoundOn(label, device) ==
    {j \in 1..Len(Found) : Found[j].label = label /\ Found[j].device = device}

\* C13: the extractor returns exactly one {label, desktop, mobile} record per
\* distinct label among the labeled entries found; mobile holds the style of
\* an entry of that label whose id has the mobile prefix, desktop that of an
\* entry without it, and the field of a device on which the label was not
\* seen is null.
C13_OneTokenPerLabel ==
    Extracted =>
        /\ \A i, k \in 1..Len(Tokens) : Tokens[i].label = Tokens[k].label => i = k
        /\ {Tokens[i].label : i \in 1..Len(Tokens)} = {Found[j].label : j \in 1..Len(Found)}
        /\ \A i \in 1..Len(Tokens) :
               /\ DOMAIN Tokens[i] = {"label", "desktop", "mobile"}
               /\ \A device \in {"desktop", "mobile"} :
                      IF FoundOn(Tokens[i].label, device) = {}
                      THEN Tokens[i][device] = JsNull
                      ELSE \E j \in FoundOn(Tokens[i].label, device) :
                               Tokens[i][device] = Found[j].style

PreservePositioning == Option(cleanOptions, "preservePositioning", TRUE)
SizeIsBox(node) ==
    /\ Has(node, "size") /\ Has(node, "absoluteBoundingBox")
    /\ node.size.x = node.absoluteBoundingBox.width
    /\ node.size.y = node.absoluteBoundingBox.height
KeepsField(i, f) ==
    Has(UncleanedNodes[i], f) =>
        Has(CleanedNodes[i], f) /\ CleanedNodes[i][f] = UncleanedNodes[i][f]
LosesField(i, f) == ~Has(CleanedNodes[i], f)

\* C21: with preservePositioning true no node loses relativeTransform or
\* size; with preservePositioning false every node at every depth loses
\* relativeTransform exactly when it has absoluteBoundingBox, and size
\* exactly when it has absoluteBoundingBox and size equals the box's
\* width and height.
C21_PositioningOption ==
    CleanReturns =>
        /\ Len(CleanedNodes) = Len(UncleanedNodes)
        /\ \A i \in 1..Len(UncleanedNodes) :
               IF PreservePositioning
               THEN KeepsField(i, "relativeTransform") /\ KeepsField(i, "size")
               ELSE /\ IF Has(UncleanedNodes[i], "absoluteBoundingBox")
                       THEN LosesField(i, "relativeTransform")
                       ELSE KeepsField(i, "relativeTransform")
                    /\ IF SizeIsBox(UncleanedNodes[i])
                       THEN LosesField(i, "size")
                       ELSE KeepsField(i, "size")

ConvertReturns == Converted /\ ~result.threw
UnconvertedNodes == AllObjects(CleanRoots(rawData))
ConvertedNodes == AllObjects(CleanRoots(Deref(heap, result.value)))

AbsoluteFields == {"absoluteBoundingBox", "relativeTransform", "x", "y"}
KeepsOtherFields(i) ==
    \A f \in (DOMAIN UnconvertedNodes[i]) \ (AbsoluteFields \cup {"children"}) :
        Has(ConvertedNodes[i], f) /\ ConvertedNodes[i][f] = UnconvertedNodes[i][f]

\* C22: after the pass no node has absoluteBoundingBox; a node that had one
\* has originalBounds equal to it, responsiveStyles with exactly the
\* breakpoints large, medium and small, and no relativeTransform, x or y; a
\* node that had none has neither responsiveStyles nor originalBounds and
\* keeps its fields.
C22_RelativeOutput ==
    ConvertReturns =>
        /\ Len(ConvertedNodes) = Len(UnconvertedNodes)
        /\ \A i \in 1..Len(UnconvertedNodes) :
               /\ ~Has(ConvertedNodes[i], "absoluteBoundingBox")
               /\ KeepsOtherFields(i)
               /\ IF Has(UnconvertedNodes[i], "absoluteBoundingBox")
                  THEN /\ Has(ConvertedNodes[i], "originalBounds")
                       /\ ConvertedNodes[i].originalBounds = UnconvertedNodes[i].absoluteBoundingBox
                       /\ Has(ConvertedNodes[i], "responsiveStyles")
                       /\ DOMAIN ConvertedNodes[i].responsiveStyles = {"large", "medium", "small"}
                       /\ (DOMAIN ConvertedNodes[i]) \cap AbsoluteFields = {}
                  ELSE /\ ~Has(ConvertedNodes[i], "responsiveStyles")
                       /\ ~Has(ConvertedNodes[i], "originalBounds")
                       /\ DOMAIN ConvertedNodes[i] = DOMAIN UnconvertedNodes[i]

C22_Witness ==
    /\ ConvertReturns
    /\ rawData = [name |-> "File", document |-> ("children" :> <<LooseGroup>>) @@ FlexRow]
    /\ ~Has(CleanedData.document, "x")
    /\ CleanedData.document.originalBounds = FlexRow.absoluteBoundingBox
    /\ CleanedData.document.children = <<LooseGroup>>

RECURSIVE ParentBounds(_, _)
\* For each object of a forest in pre-order, the bounding box of its nearest
\* ancestor that has one, null when there is none.
ParentBounds(forest, bounds) ==
    IF forest = <<>>
    THEN <<>>
    ELSE (IF IsObject(Head(forest))
          THEN <<bounds>> \o (IF Has(Head(forest), "children")
                              THEN ParentBounds(Head(forest).children,
                                                IF Has(Head(forest), "absoluteBoundingBox")
                                                THEN Head(forest).absoluteBoundingBox
                                                ELSE bounds)
                              ELSE <<>>)
          ELSE <<>>)
         \o ParentBounds(Tail(forest), bounds)
AncestorBounds == ParentBounds(CleanRoots(rawData), JsNull)

IsFlexContainer(node) ==
    \/ Has(node, "layoutMode") /\ node.layoutMode \in {"HORIZONTAL", "VERTICAL"}
    \/ Has(node, "children") /\ Len(node.children) > 1
FlexProperties == {"display", "flexDirection", "justifyContent", "alignItems", "gap", "padding"}
HasPositiveBox(bounds) == bounds # JsNull /\ bounds.width > 0 /\ bounds.height > 0
LargeOf(i) == ConvertedNodes[i].responsiveStyles.large

\* C23: the large breakpoint of a node has display flex and position relative
\* exactly when the node's layoutMode is HORIZONTAL or VERTICAL or it has more
\* than one child; otherwise it has position absolute, no flex property, and
\* left and top as percentages of the offset from the bounding box of the
\* nearest ancestor that has one, when that box has positive width and height.
C23_FlexDecision ==
    ConvertReturns =>
        /\ Len(ConvertedNodes) = Len(UnconvertedNodes)
        /\ Len(AncestorBounds) = Len(UnconvertedNodes)
        /\ \A i \in 1..Len(UnconvertedNodes) :
               Has(UnconvertedNodes[i], "absoluteBoundingBox") =>
                   IF IsFlexContainer(UnconvertedNodes[i])
                   THEN /\ Has(LargeOf(i), "display") /\ LargeOf(i).display = "flex"
                        /\ LargeOf(i).position = "relative"
                   ELSE /\ LargeOf(i).position = "absolute"
                        /\ (DOMAIN LargeOf(i)) \cap FlexProperties = {}
                        /\ IF HasPositiveBox(AncestorBounds[i])
                           THEN /\ Has(LargeOf(i), "left") /\ Has(LargeOf(i), "top")
                                /\ LargeOf(i).left =
                                       toFixed2(UnconvertedNodes[i].absoluteBoundingBox.x
                                                - AncestorBounds[i].x, AncestorBounds[i].width) \o "%"
                                /\ LargeOf(i).top =
                                       toFixed2(UnconvertedNodes[i].absoluteBoundingBox.y
                                                - AncestorBounds[i].y, AncestorBounds[i].height) \o "%"
                           ELSE ~Has(LargeOf(i), "left") /\ ~Has(LargeOf(i), "top")

C23_Witness ==
    /\ ConvertReturns
    /\ rawData = [name |-> "File",
                  document |-> ("children" :> <<("children" :> <<Leaf>>) @@ LooseGroup>>) @@ Canvas]
    /\ CleanedData.document.responsiveStyles.large
           = [position |-> "absolute", width |-> "100px", height |-> "50px"]
    /\ CleanedData.document.children[1].children[1].responsiveStyles.large
           = [position |-> "absolute", width |-> "50.00%", height |-> "50.00%",
              left |-> "-5.00%", top |-> "50.00%"]


--------------------------------------------------------------------------
(* The colour palette extractor: findColorItems of utils/findColorItems.js  *)
(* (lines 120-225).  A node name is the sequence of its characters, so that *)
(* toLowerCase is computed; the nodes mapping is the sequence of its        *)
(* <<nodeId, entry>> pairs; the palette is the sequence of its              *)
(* <<label, slots>> pairs in insertion order, slots being a function from   *)
(* the slot numbers to the stored strings.                                  *)

UpperCase ==
    <<"A", "B", "C", "D", "E", "F", "G", "H", "I", "J", "K", "L", "M",
      "N", "O", "P", "Q", "R", "S", "T", "U", "V", "W", "X", "Y", "Z">>
LowerCase ==
    <<"a", "b", "c", "d", "e", "f", "g", "h", "i", "j", "k", "l", "m",
      "n", "o", "p", "q", "r", "s", "t", "u", "v", "w", "x", "y", "z">>

LowerOf(ch) ==
    IF \E i \in 1..26 : UpperCase[i] = ch
    THEN LowerCase[CHOOSE i \in 1..26 : UpperCase[i] = ch]
    ELSE ch

\* String.prototype.toLowerCase
toLowerCase(chars) == [i \in 1..Len(chars) |-> LowerOf(chars[i])]

\* item.name && item.name.toLowerCase() === "color"
IsColorItem(item) ==
    Has(item, "name") /\ item.name # <<>>
    /\ toLowerCase(item.name) = <<"c", "o", "l", "o", "r">>

\* The properties other than children that hold an object in a payload, in
\* the order Object.keys lists them; the ones holding an array, and the one
\* holding the nodes mapping.
ObjectKeys == <<"document", "nodes", "fills", "color", "gradientStops">>
ArrayKeys == {"fills", "gradientStops"}
MappingKeys == {"nodes"}

RECURSIVE searchColors(_, _)
RECURSIVE searchColorsEach(_, _)
RECURSIVE searchColorsEntries(_, _)
RECURSIVE searchColorsKeys(_, _, _)

\* searchColors with childrenHaveColorParent = isColorItem: only the parent
\* of a node counts, not the ancestors above it.
searchColorsUnderParent(item, hasColorParent) ==
    (IF IsColorItem(item) /\ ~hasColorParent THEN <<item>> ELSE <<>>)
    \o (IF Has(item, "children")
        THEN searchColorsEach(item.children, IsColorItem(item))
        ELSE <<>>)
    \o searchColorsKeys(item, ObjectKeys, IsColorItem(item))

\* searchColors(item, hasColorParent): the items it pushes on colorItems, in
\* the order it pushes them (lines 124-155).
searchColors(item, hasColorParent) ==
    (IF IsColorItem(item) /\ ~hasColorParent THEN <<item>> ELSE <<>>)
    \o (IF Has(item, "children")
        THEN searchColorsEach(item.children, hasColorParent \/ IsColorItem(item))
        ELSE <<>>)
    \o searchColorsKeys(item, ObjectKeys, hasColorParent \/ IsColorItem(item))

\* item.children.forEach(child => searchColors(child, ...)), and the same
\* over the elements of an array found under another key.
searchColorsEach(items, hasColorParent) ==
    IF items = <<>>
    THEN <<>>
    ELSE searchColors(Head(items), hasColorParent)
         \o searchColorsEach(Tail(items), hasColorParent)

\* searchColors of the nodes mapping: it has no name and no children, and
\* each of its keys holds an entry object.
searchColorsEntries(entries, hasColorParent) ==
    IF entries = <<>>
    THEN <<>>
    ELSE searchColors(Head(entries)[2], hasColorParent)
         \o searchColorsEntries(Tail(entries), hasColorParent)

\* One key of Object.keys(item).forEach (lines 146-153).
searchColorsKey(item, key, hasColorParent) ==
    IF ~Has(item, key)
    THEN <<>>
    ELSE IF key \in ArrayKeys
         THEN searchColorsEach(item[key], hasColorParent)
         ELSE IF key \in MappingKeys
              THEN searchColorsEntries(item[key], hasColorParent)
              ELSE searchColors(item[key], hasColorParent)

searchColorsKeys(item, keys, hasColorParent) ==
    IF keys = <<>>
    THEN <<>>
    ELSE searchColorsKey(item, Head(keys), hasColorParent)
         \o searchColorsKeys(item, Tail(keys), hasColorParent)

TitleName == <<"t", "i", "t", "l", "e">>

RECURSIVE TitleLabel(_, _)
\* child.children.forEach(title => { if (title.type === "TEXT") label =
\* title.characters }); a text without characters leaves undefined, whose
\* property key is "undefined".
TitleLabel(titles, label) ==
    IF titles = <<>>
    THEN label
    ELSE TitleLabel(Tail(titles),
                    IF Has(Head(titles), "type") /\ Head(titles).type = "TEXT"
                    THEN (IF Has(Head(titles), "characters")
                          THEN Head(titles).characters
                          ELSE "undefined")
                    ELSE label)

RECURSIVE findLabel(_, _)
RECURSIVE findLabelEach(_, _)

\* One child of findLabel's forEach (lines 168-180).
findLabelChild(child, label) ==
    IF Has(child, "name") /\ child.name = TitleName
    THEN (IF Has(child, "children") THEN TitleLabel(child.children, label) ELSE label)
    ELSE findLabel(child, label)

findLabelEach(children, label) ==
    IF children = <<>>
    THEN label
    ELSE findLabelEach(Tail(children), findLabelChild(Head(children), label))

\* findLabel(item): the value it leaves in label (lines 166-182).
findLabel(item, label) ==
    IF Has(item, "children") THEN findLabelEach(item.children, label) ELSE label

OwnLabel(colorPalette, label) ==
    \E i \in 1..Len(colorPalette) : colorPalette[i][1] = label

\* if (!colorPalette[label]) colorPalette[label] = {}: a label that
\* Object.prototype defines reads as truthy and gets no object of its own.
WithLabel(colorPalette, label) ==
    IF OwnLabel(colorPalette, label) \/ label \in ObjectPrototypeNames
    THEN colorPalette
    ELSE Append(colorPalette, <<label, <<>> >>)

\* colorPalette[label][slot] = value; under an inherited label the write
\* lands on the member of Object.prototype and the palette is unchanged.
SetSlot(colorPalette, label, slot, value) ==
    [i \in 1..Len(colorPalette) |->
        IF colorPalette[i][1] = label
        THEN <<label, (slot :> value) @@ colorPalette[i][2]>>
        ELSE colorPalette[i]]

\* fill.type.startsWith("GRADIENT"), over the fill types of the payloads.
startsWithGradient(type) ==
    type \in {"GRADIENT_LINEAR", "GRADIENT_RADIAL", "GRADIENT_ANGULAR", "GRADIENT_DIAMOND"}

\* What lines 197-208 store for a first fill: the one string, or nothing.
SlotValue(firstFill) ==
    IF Has(firstFill, "type") /\ firstFill.type = "SOLID" /\ Has(firstFill, "color")
    THEN <<findColorItems_rgbaToHex(firstFill.color)>>
    ELSE IF Has(firstFill, "type") /\ startsWithGradient(firstFill.type)
              /\ Has(firstFill, "gradientStops") /\ gradientToCss(firstFill) # JsNull
         THEN <<gradientToCss(firstFill).text>>
         ELSE <<>>

HasFirstFill(child) ==
    Has(child, "type") /\ child.type = "RECTANGLE"
    /\ Has(child, "fills") /\ Len(child.fills) > 0

\* The rectangle branch of the forEach (lines 188-211) on the pair of the
\* palette and the running index.
WithRectangle(child, label, acc) ==
    IF HasFirstFill(child) /\ SlotValue(child.fills[1]) # <<>>
    THEN [palette |-> SetSlot(acc.palette, label, acc.index * 100,
                              SlotValue(child.fills[1])[1]),
          index |-> acc.index + 1]
    ELSE acc

RECURSIVE findRectanglesAndColors(_, _, _)
RECURSIVE findRectanglesEach(_, _, _)

findRectanglesEach(children, label, acc) ==
    IF children = <<>>
    THEN acc
    ELSE findRectanglesEach(Tail(children), label,
            findRectanglesAndColors(Head(children), label,
                                    WithRectangle(Head(children), label, acc)))

\* findRectanglesAndColors(item) (lines 187-217).
findRectanglesAndColors(item, label, acc) ==
    IF Has(item, "children") THEN findRectanglesEach(item.children, label, acc) ELSE acc

\* One colour item of colorItems.forEach (lines 163-220): index starts at 1.
WithColorItem(colorItem, label, colorPalette) ==
    findRectanglesAndColors(colorItem, label,
        [palette |-> WithLabel(colorPalette, label), index |-> 1]).palette

RECURSIVE PaletteOfItems(_, _)
PaletteOfItems(colorItems, colorPalette) ==
    IF colorItems = <<>>
    THEN colorPalette
    ELSE PaletteOfItems(Tail(colorItems),
            WithColorItem(Head(colorItems), findLabel(Head(colorItems), "color"),
                          colorPalette))

\* findColorItems(obj)
findColorItems(obj) == PaletteOfItems(searchColors(obj, FALSE), <<>>)

--------------------------------------------------------------------------
(* SpecPalette: one payload through findColorItems. *)

MaxColorNodes == 3

ColorName == <<"c", "o", "l", "o", "r">>
Green == [r |-> 0, g |-> Scale, b |-> 0, a |-> Scale]

ColorFrame == [name |-> ColorName, type |-> "FRAME"]
ColorSection == [name |-> <<"C", "o", "l", "o", "R">>, type |-> "SECTION"]
Swatches == [name |-> <<"s", "w", "a", "t", "c", "h", "e", "s">>, type |-> "FRAME"]
ColorsFrame == [name |-> <<"c", "o", "l", "o", "r", "s">>, type |-> "FRAME"]
PrimaryTitle ==
    [name |-> TitleName, type |-> "FRAME",
     children |-> << [name |-> <<"l", "a", "b", "e", "l">>, type |-> "TEXT",
                      characters |-> "primary"] >>]
ConstructorTitle ==
    [name |-> TitleName, type |-> "FRAME",
     children |-> << [name |-> <<"l", "a", "b", "e", "l">>, type |-> "TEXT",
                      characters |-> "constructor"] >>]
RedSwatch ==
    [name |-> <<"r", "e", "d">>, type |-> "RECTANGLE",
     fills |-> << [type |-> "SOLID", color |-> Red] >>]
GreenSwatch ==
    [name |-> <<"g", "r", "e", "e", "n">>, type |-> "RECTANGLE",
     fills |-> << [type |-> "SOLID", color |-> Green], [type |-> "SOLID", color |-> Red] >>]
FadeSwatch ==
    [name |-> <<"f", "a", "d", "e">>, type |-> "RECTANGLE",
     fills |-> << [type |-> "GRADIENT_LINEAR",
                   gradientStops |-> << [color |-> Red, position |-> 0],
                                        [color |-> Blue, position |-> Scale] >>] >>]
BlankSwatch ==
    [name |-> <<"b", "l", "a", "n", "k">>, type |-> "RECTANGLE",
     fills |-> << [type |-> "GRADIENT_RADIAL", gradientStops |-> <<>>] >>]
PhotoSwatch ==
    [name |-> <<"p", "h", "o", "t", "o">>, type |-> "RECTANGLE",
     fills |-> << [type |-> "IMAGE"], [type |-> "SOLID", color |-> Red] >>]

ColorProfiles ==
    {ColorFrame, ColorSection, Swatches, ColorsFrame, PrimaryTitle, ConstructorTitle,
     RedSwatch, GreenSwatch, FadeSwatch, BlankSwatch, PhotoSwatch}
ColorParents == {ColorFrame, ColorSection, Swatches}

RECURSIVE ColorTreesOfSize(_)
RECURSIVE ColorForestsOfSize(_)
ColorTreesOfSize(n) ==
    IF n = 1
    THEN ColorProfiles
    ELSE {("children" :> f) @@ p : p \in ColorParents, f \in ColorForestsOfSize(n - 1)}
ColorForestsOfSize(m) ==
    IF m = 0
    THEN {<<>>}
    ELSE UNION {{<<t>> \o f : t \in ColorTreesOfSize(k), f \in ColorForestsOfSize(m - k)} :
                k \in 1..m}

ColorTrees == UNION {ColorTreesOfSize(n) : n \in 1..MaxColorNodes}

\* A file with a document, and a nodes response with two entries.
ColorPayloads ==
    {[name |-> <<"F", "i", "l", "e">>, document |-> t] : t \in ColorTrees}
    \cup UNION {{[name |-> ColorName, document |-> t] : t \in ColorTreesOfSize(n)} : n \in 1..2}
    \cup UNION {{[name |-> <<"F", "i", "l", "e">>,
                  nodes |-> << <<"1:2", [document |-> t]>>, <<"3:4", [document |-> u]>> >>] :
                    t \in ColorTreesOfSize(2), u \in ColorTreesOfSize(n)} : n \in 1..2}

InitPalette ==
    /\ NoServer
    /\ pc = "palette"
    /\ rawData \in ColorPayloads
    /\ result = JsNull
    /\ prevCall = JsNull /\ styles = EmptyDict /\ internLog = <<>>
    /\ colorCall = JsNull /\ hexOut = JsNull /\ fill = JsNull /\ css = JsNull
    /\ heap = <<>> /\ input = JsNull /\ cleanOptions = JsNull /\ optimizedData = JsNull

\* colorPalette = findColorItems(obj)
ExtractColors ==
    /\ pc = "palette"
    /\ result' = Return(findColorItems(rawData))
    /\ pc' = "paletted"
    /\ UNCHANGED <<requests, downloads, rawData, styles, internLog, prevCall, colorCall, hexOut, fill, css,
                   heap, input, cleanOptions, optimizedData>>

NextPalette == ExtractColors

SpecPalette == InitPalette /\ [][NextPalette]_vars

Paletted == pc = "paletted"
\* The colour items the search selected, in the order it pushed them.
ColorItems == searchColors(rawData, FALSE)
ColorPalette == result.value


\* The first fill is a SOLID fill with a color, or a gradient with a
\* non-empty stop list.
IsSwatch(node) ==
    /\ Has(node, "type") /\ node.type = "RECTANGLE"
    /\ Has(node, "fills") /\ Len(node.fills) > 0
    /\ Has(node.fills[1], "type")
    /\ \/ node.fills[1].type = "SOLID" /\ Has(node.fills[1], "color")
       \/ /\ node.fills[1].type \in {"GRADIENT_LINEAR", "GRADIENT_RADIAL",
                                     "GRADIENT_ANGULAR", "GRADIENT_DIAMOND"}
          /\ Has(node.fills[1], "gradientStops")
          /\ Len(node.fills[1].gradientStops) > 0

\* The hex colour or the CSS gradient of a swatch.
SwatchColor(node) ==
    IF node.fills[1].type = "SOLID"
    THEN findColorItems_rgbaToHex(node.fills[1].color)
    ELSE gradientToCss(node.fills[1]).text

\* The swatch rectangles below a colour item, in depth-first order.
SwatchesOf(colorItem) ==
    IF Has(colorItem, "children")
    THEN SelectSeq(AllObjects(colorItem.children), IsSwatch)
    ELSE <<>>

LabelOf(colorItem) == findLabel(colorItem, "color")

SlotsOf(colorPalette, label) ==
    colorPalette[CHOOSE i \in 1..Len(colorPalette) : colorPalette[i][1] = label][2]

\* The slots of the item's label are exactly 100, ..., 100 * n and hold the
\* item's swatches in order.
HoldsSwatches(colorPalette, colorItem) ==
    /\ OwnLabel(colorPalette, LabelOf(colorItem))
    /\ DOMAIN SlotsOf(colorPalette, LabelOf(colorItem))
         = {100 * k : k \in 1..Len(SwatchesOf(colorItem))}
    /\ \A k \in 1..Len(SwatchesOf(colorItem)) :
         SlotsOf(colorPalette, LabelOf(colorItem))[100 * k]
           = SwatchColor(SwatchesOf(colorItem)[k])

\* C24: for each selected colour item, the k-th rectangle descendant in
\* depth-first order whose first fill is a SOLID fill with a color or a
\* gradient with a non-empty stop list is stored under slot 100 * k of the
\* item's label; the slot keys of the label are exactly 100, ..., 100 * n,
\* and every such rectangle of every colour item is in the returned palette.
C24_PaletteSlots ==
    Paletted =>
        \A i \in 1..Len(ColorItems) : HoldsSwatches(ColorPalette, ColorItems[i])

\* "color" in any mix of upper and lower case.
NamedColor(name) ==
    /\ Len(name) = 5
    /\ \A i \in 1..5 : name[i] \in {ColorName[i], <<"C", "O", "L", "O", "R">>[i]}

NameOf(item) == IF Has(item, "name") THEN item.name ELSE <<>>

RECURSIVE NodesUnder(_, _)
RECURSIVE NodesUnderEach(_, _)
RECURSIVE NodesUnderEntries(_, _)
\* Every node of a payload with the names of the objects above it on its
\* path from the root: the root, the documents and the children.
NodesUnder(item, above) ==
    <<[node |-> item, above |-> above]>>
    \o (IF Has(item, "children")
        THEN NodesUnderEach(item.children, Append(above, NameOf(item)))
        ELSE <<>>)
    \o (IF Has(item, "document")
        THEN NodesUnder(item.document, Append(above, NameOf(item)))
        ELSE <<>>)
    \o (IF Has(item, "nodes")
        THEN NodesUnderEntries(item.nodes, Append(above, NameOf(item)))
        ELSE <<>>)
NodesUnderEach(items, above) ==
    IF items = <<>>
    THEN <<>>
    ELSE NodesUnder(Head(items), above) \o NodesUnderEach(Tail(items), above)
NodesUnderEntries(entries, above) ==
    IF entries = <<>>
    THEN <<>>
    ELSE NodesUnder(Head(entries)[2], above) \o NodesUnderEntries(Tail(entries), above)

\* Named "color", and nothing above it is.
TopmostColor(placed) ==
    /\ NamedColor(NameOf(placed.node))
    /\ \A i \in 1..Len(placed.above) : ~NamedColor(placed.above[i])

TopmostColors == SelectSeq(NodesUnder(rawData, <<>>), TopmostColor)

\* C25: findColorItems selects a node as a colour item exactly when its name
\* is "color" in any letter case and no ancestor on its path from the root is
\* named "color"; a "color" node below another "color" node is never selected.
C25_ColorItemSelection ==
    Paletted => ColorItems = [i \in 1..Len(TopmostColors) |-> TopmostColors[i].node]

\* A "Color" section two levels below a "color" frame: only the frame is
\* selected.
C25_Witness ==
    /\ Paletted
    /\ rawData = [name |-> <<"F", "i", "l", "e">>,
                  document |-> [name |-> ColorName, type |-> "FRAME",
                                children |-> << [name |-> Swatches.name, type |-> "FRAME",
                                                 children |-> <<ColorSection>>] >>]]
    /\ ColorItems = <<rawData.document>>
    /\ ColorPalette = << <<"color", <<>> >> >>


--------------------------------------------------------------------------
(* Style references of one call of transformFigmaJson (Spec). *)

StyleReferenceKeys == {"fillStyleId", "layoutStyleId", "textStyleId"}

\* The style ids the output nodes carry.
ReferencedStyleIds ==
    {Outs[i][k] : <<i, k>> \in {p \in (1..Len(Outs)) \X StyleReferenceKeys : Has(Outs[p[1]], p[2])}}

\* C26: in every result of transformFigmaJson each fillStyleId, layoutStyleId
\* and textStyleId of an output node is a key of the returned StyleDict, none
\* is null or refers to an empty style, and every StyleDict entry is
\* referenced by at least one output node.
C26_StyleReferences ==
    Returns =>
        /\ \A id \in ReferencedStyleIds :
              id # JsNull /\ id \in DOMAIN StyleDict /\ Len(StyleDict[id]) > 0
        /\ \A id \in DOMAIN StyleDict : id \in ReferencedStyleIds

\* A frame with an auto layout and a coloured text below it: two entries,
\* one referenced by each node.
C26_Witness ==
    /\ Returns
    /\ rawData = [document |-> ("children" :> <<RedText>>) @@ HiddenFrame]
    /\ Cardinality(DOMAIN StyleDict) = 2
    /\ Len(Outs) = 2
    /\ Has(Outs[1], "layoutStyleId") /\ Has(Outs[2], "textStyleId")
    /\ Outs[1].layoutStyleId # Outs[2].textStyleId
    /\ ReferencedStyleIds = DOMAIN StyleDict


--------------------------------------------------------------------------
(* SpecWalk: the tree walk of transformFigmaJson one style processor call   *)
(* at a time.  input is the work still ahead, in the order the recursion of *)
(* transformNode runs it: a node to visit, or one entry of a visited node's *)
(* styleProcessors table; styles is the one dictionary the walk shares;     *)
(* internLog holds the <<style object, id>> of each id a processor handed   *)
(* to its node.                                                             *)

VisitOf(rawNode) == [kind |-> "visit", node |-> rawNode]
VisitsOf(rawNodes) == [i \in 1..Len(rawNodes) |-> VisitOf(rawNodes[i])]

\* The calls visiting a node sets off: the styleProcessors entries whose
\* condition holds, then the children the filter keeps (lines 347-370).
\* Nothing for what is not a node or has no type (lines 316-328).
WorkOf(rawNode) ==
    IF ~IsNode(rawNode) \/ ~HasType(rawNode)
    THEN <<>>
    ELSE (IF Has(rawNode, "fills") THEN <<[kind |-> "fill", node |-> rawNode]>> ELSE <<>>)
         \o <<[kind |-> "layout", node |-> rawNode]>>
         \o (IF rawNode.type = "TEXT" THEN <<[kind |-> "text", node |-> rawNode]>> ELSE <<>>)
         \o (IF Has(rawNode, "children")
             THEN VisitsOf(SelectSeq(rawNode.children, ChildIsProcessed))
             ELSE <<>>)

\* const styles = {} inside transformNode: every processor call starts from
\* an empty dictionary.
RunProcessorOnFresh(kind, rawNode, dict) ==
    CASE kind = "fill" -> getFillStyleId(ProcessorArgument(rawNode), EmptyDict)
      [] kind = "layout" -> getLayoutStyleId(rawNode, EmptyDict)
      [] kind = "text" -> getTextStyleId(rawNode, EmptyDict)

\* processor(rawNode, styles) of line 355.
RunProcessor(kind, rawNode, dict) ==
    CASE kind = "fill" -> getFillStyleId(ProcessorArgument(rawNode), dict)
      [] kind = "layout" -> getLayoutStyleId(rawNode, dict)
      [] kind = "text" -> getTextStyleId(rawNode, dict)

InitWalk ==
    /\ NoServer
    /\ pc = "walk"
    /\ rawData \in Payloads
    /\ input = VisitsOf(RootsOf(rawData))
    /\ styles = EmptyDict
    /\ internLog = <<>>
    /\ result = JsNull /\ prevCall = JsNull
    /\ colorCall = JsNull /\ hexOut = JsNull /\ fill = JsNull /\ css = JsNull
    /\ heap = <<>> /\ cleanOptions = JsNull /\ optimizedData = JsNull

\* transformNode(rawNode, styles) is entered.
VisitNode ==
    /\ pc = "walk"
    /\ input # <<>>
    /\ Head(input).kind = "visit"
    /\ input' = WorkOf(Head(input).node) \o Tail(input)
    /\ UNCHANGED <<requests, downloads, pc, styles, internLog, rawData, result, prevCall, colorCall, hexOut, fill,
                   css, heap, cleanOptions, optimizedData>>

\* One processor call: the dictionary it leaves, the id it handed out, and
\* the end of the walk when it raised.
ProcessorStep(kind) ==
    /\ pc = "walk"
    /\ input # <<>>
    /\ Head(input).kind = kind
    /\ styles' = RunProcessor(kind, Head(input).node, styles).styles
    /\ internLog' =
         IF RunProcessor(kind, Head(input).node, styles).id # JsNull
         THEN Append(internLog,
                     <<RunProcessor(kind, Head(input).node, styles).styles[
                           RunProcessor(kind, Head(input).node, styles).id],
                       RunProcessor(kind, Head(input).node, styles).id>>)
         ELSE internLog
    /\ input' = IF RunProcessor(kind, Head(input).node, styles).threw THEN <<>> ELSE Tail(input)
    /\ pc' = IF RunProcessor(kind, Head(input).node, styles).threw THEN "walk-threw" ELSE pc
    /\ UNCHANGED <<requests, downloads, rawData, result, prevCall, colorCall, hexOut, fill, css, heap,
                   cleanOptions, optimizedData>>

FillStep == ProcessorStep("fill")
LayoutStep == ProcessorStep("layout")
TextStep == ProcessorStep("text")

\* The last transformNode returned: the result carries the dictionary.
FinishWalk ==
    /\ pc = "walk"
    /\ input = <<>>
    /\ pc' = "walked"
    /\ result' = Return([styles |-> styles])
    /\ UNCHANGED <<requests, downloads, styles, internLog, rawData, input, prevCall, colorCall, hexOut, fill, css,
                   heap, cleanOptions, optimizedData>>

NextWalk == VisitNode \/ FillStep \/ LayoutStep \/ TextStep \/ FinishWalk

SpecWalk == InitWalk /\ [][NextWalk]_vars

\* One step leaves the dictionary as it is or adds one key, every entry it
\* had staying what it was.
GrowsByAtMostOne ==
    /\ DOMAIN styles \subseteq DOMAIN styles'
    /\ \A id \in DOMAIN styles : styles'[id] = styles[id]
    /\ Cardinality(DOMAIN styles') <= Cardinality(DOMAIN styles) + 1

\* Every id a processor handed to a node is a key of the dictionary and
\* refers to the content it referred to when it was handed out.
HandedIdsStable ==
    \A i \in 1..Len(internLog) :
        internLog[i][2] \in DOMAIN styles /\ styles[internLog[i][2]] = internLog[i][1]

\* C27: during a tree walk each step leaves the StyleDict unchanged or adds
\* one new key; no entry is removed and no entry's content is overwritten or
\* modified, so a StyleID handed to an earlier node keeps referring to the
\* same style content for the rest of the walk.
C27_StyleDictGrows == [][GrowsByAtMostOne]_vars /\ []HandedIdsStable

\* A completed walk over a frame with an auto layout and two equal texts:
\* three ids handed out, two entries, the text style's id handed out twice.
C27_Witness ==
    /\ pc = "walked"
    /\ rawData = [document |-> ("children" :> <<RedText, RedText>>) @@ HiddenFrame]
    /\ Len(internLog) = 3
    /\ Cardinality(DOMAIN styles) = 2
    /\ internLog[2][2] = internLog[3][2]
    /\ internLog[1][2] # internLog[2][2]
    /\ styles = transformFigmaJson(rawData).value.styles


--------------------------------------------------------------------------
(* SpecFill: one fills array through the fill style processors:            *)
(* getFillStyleId (utils/transformFigmaJson.js 99-122, the same text in     *)
(* unnamed/part_001 419-451) and getColorStyleId (utils/transformFigmaJson  *)
(* .js 578-610).                                                            *)

\* The style object getColorStyleId builds for a SOLID fill.
ColorStyleData(f) ==
    << <<"color", Str(rgbaToHex(f.color))>>,
       <<"opacity", Num(IF Has(f, "opacity") /\ f.opacity # 0 THEN f.opacity ELSE Scale)>> >>

\* getColorStyleId(fills, styles)
getColorStyleId(fills, dict) ==
    IF fills = Undefined \/ ~IsArray(fills) \/ Len(fills.array) = 0
    THEN Returned(JsNull, dict)
    ELSE IF ~IsObject(fills.array[1])
         THEN Raised(dict)
         ELSE IF Has(fills.array[1], "visible") /\ fills.array[1].visible = FALSE
              THEN Returned(JsNull, dict)
              ELSE IF /\ Has(fills.array[1], "type") /\ fills.array[1].type = "SOLID"
                      /\ Has(fills.array[1], "color")
                   THEN Returned(InternStyle(ColorStyleData(fills.array[1]), dict).id,
                                 InternStyle(ColorStyleData(fills.array[1]), dict).styles)
                   ELSE Returned(JsNull, dict)

\* Fills as the Figma API sends them: each of color, opacity and visible
\* present or not, the opacity anywhere from 0 to 1.
FillOpacities == {0, Scale \div 4, Scale \div 2, Scale}
FillValues ==
    WithField(WithField(WithField({[type |-> "SOLID"], [type |-> "IMAGE"]},
                                  "color", {Red, Blue, White}),
                        "opacity", FillOpacities),
              "visible", {TRUE, FALSE})

FillArguments ==
    {AsArray(<<f>>) : f \in FillValues}
    \cup {AsArray(<<f, SolidWhite>>) : f \in FillValues}
    \cup {AsArray(<<>>), AsArray(<<JsNull>>), Undefined}

InitFill ==
    /\ NoServer
    /\ pc = "fills"
    /\ input \in FillArguments
    /\ styles = EmptyDict
    /\ result = JsNull
    /\ internLog = <<>>
    /\ rawData = JsNull /\ prevCall = JsNull
    /\ colorCall = JsNull /\ hexOut = JsNull /\ fill = JsNull /\ css = JsNull
    /\ heap = <<>> /\ cleanOptions = JsNull /\ optimizedData = JsNull

\* fillStyleId = getFillStyleId(rawNode.fills, styles)
InternFill ==
    /\ pc = "fills"
    /\ result' = getFillStyleId(input, styles)
    /\ styles' = getFillStyleId(input, styles).styles
    /\ pc' = "fill-interned"
    /\ UNCHANGED <<requests, downloads, input, internLog, rawData, prevCall, colorCall, hexOut, fill, css, heap,
                   cleanOptions, optimizedData>>

\* colorStyleId = getColorStyleId(rawNode.fills, styles)
InternColor ==
    /\ pc = "fills"
    /\ result' = getColorStyleId(input, styles)
    /\ styles' = getColorStyleId(input, styles).styles
    /\ pc' = "color-interned"
    /\ UNCHANGED <<requests, downloads, input, internLog, rawData, prevCall, colorCall, hexOut, fill, css, heap,
                   cleanOptions, optimizedData>>

NextFill == InternFill \/ InternColor

SpecFill == InitFill /\ [][NextFill]_vars

FillInterned == pc \in {"fill-interned", "color-interned"} /\ result.id # JsNull

\* C28: the opacity stored in an interned fill style equals the opacity
\* field of the first fill whenever that field is defined (0 included), and
\* is 1 only when the fill has no opacity field.
C28_StoredOpacity ==
    FillInterned =>
        ValueOf(styles[result.id], "opacity") = Num(FillOpacity(input.array[1]))


--------------------------------------------------------------------------
(* SpecCleanTwice: removeMetadata on a payload, then again on what it      *)
(* returned, with the same options.  prevCall keeps the first outcome.      *)

\* again = removeMetadata(cleaned, options)
CleanAgain ==
    /\ pc = "cleaned"
    /\ ~result.threw
    /\ heap' = removeMetadata(heap, result.value, cleanOptions).heap
    /\ result' = [threw |-> removeMetadata(heap, result.value, cleanOptions).threw,
                  value |-> removeMetadata(heap, result.value, cleanOptions).value]
    /\ prevCall' = result
    /\ pc' = "recleaned"
    /\ UNCHANGED <<requests, downloads, rawData, input, cleanOptions, styles, internLog, colorCall,
                   hexOut, fill, css, optimizedData>>

NextCleanTwice == Clean \/ CleanAgain

SpecCleanTwice == InitClean /\ [][NextCleanTwice]_vars

Recleaned == pc = "recleaned"

\* C29: removeMetadata is idempotent: for every document and every fixed
\* option set, removeMetadata(removeMetadata(d, o), o) deep-equals
\* removeMetadata(d, o).
C29_Idempotent ==
    Recleaned =>
        /\ ~result.threw
        /\ Deref(heap, result.value) = Deref(heap, prevCall.value)


\* A file cleaned twice without positioning: the first call stripped the
\* frame, the second found nothing more to strip.
C29_Witness ==
    /\ Recleaned
    /\ ~result.threw
    /\ rawData = ("document" :> (("children" :> <<ResizedBox>>) @@ DefaultFrame)) @@ FileMeta
    /\ cleanOptions = [preservePositioning |-> FALSE]
    /\ Deref(heap, prevCall.value) # rawData
    /\ ~Has(Deref(heap, prevCall.value), "name")
    /\ ~Has(Deref(heap, prevCall.value).document, "size")
    /\ ~Has(Deref(heap, prevCall.value).document, "relativeTransform")
    /\ Has(Deref(heap, prevCall.value).document.children[1], "size")
    /\ Deref(heap, result.value) = Deref(heap, prevCall.value)


--------------------------------------------------------------------------
(* SpecServer: POST /figmaDesign requests on the one event loop of          *)
(* unnamed/part_000 (lines 44-74), each through clearDownloadDirectory      *)
(* (lines 22-36) and two calls of fetchFigmaDesign (index.js 86-156).  The  *)
(* code between two awaits runs without interruption; at an await any other *)
(* request can run.  The awaits in a row that touch no file are one step:   *)
(* the two API fetches and their json() before the design file is written,  *)
(* the CDN fetch and arrayBuffer() before the image file is written, and    *)
(* the second CDN fetch for the base64 copy.  downloads maps each file name *)
(* of the directory to the request whose data the file holds.               *)

MaxRequests == 2

RequestIds == 1..MaxRequests

\* A URL of the request body: missing, one extractFigmaInfo finds no file id
\* in, or a Figma URL.
UrlKinds == {"missing", "junk", "figma"}

Waiting == [status |-> "idle", viewport |-> "none", at |-> "none", mobileUrl |-> "none"]

Running(viewport, at, mobileUrl) ==
    [status |-> "running", viewport |-> viewport, at |-> at, mobileUrl |-> mobileUrl]

\* res.json(...), res.status(400).json(...), res.status(500).json(...)
Answered(status, request) == [request EXCEPT !.status = status, !.at = "none"]

designFile(viewport) == viewport \o "-design.json"
imageFile(viewport) == viewport \o "-image.png"

\* fs.writeFileSync(path.join(downloadDir, file), ...) by request r.
writeFileSync(dir, file, r) == (file :> r) @@ dir

\* clearDownloadDirectory(): the directory exists (index.js creates it when
\* the module loads) and every file in it is unlinked.
clearDownloadDirectory(dir) == <<>>

\* fetchFigmaDesign up to its first await: a URL without a file id throws.
Started(viewport, url, mobileUrl, request) ==
    IF url = "figma"
    THEN Running(viewport, "api", mobileUrl)
    ELSE Answered("error", request)

\* fetchFigmaDesign returned: the handler goes on to the mobile design, or
\* answers with both.
Fetched(request) ==
    IF request.viewport = "desktop"
    THEN Started("mobile", request.mobileUrl, request.mobileUrl, request)
    ELSE Answered("ok", request)

InitServer ==
    /\ pc = "serve"
    /\ requests = [r \in RequestIds |-> Waiting]
    /\ downloads = <<>>
    /\ rawData = JsNull /\ result = JsNull /\ prevCall = JsNull
    /\ styles = EmptyDict /\ internLog = <<>>
    /\ colorCall = JsNull /\ hexOut = JsNull /\ fill = JsNull /\ css = JsNull
    /\ heap = <<>> /\ input = JsNull /\ cleanOptions = JsNull /\ optimizedData = JsNull

\* The handler up to its first await: the body check, the clearing of the
\* directory, and the start of the desktop fetch.
Receive(r) ==
    /\ pc = "serve"
    /\ requests[r].status = "idle"
    /\ \E desktopUrl \in UrlKinds, mobileUrl \in UrlKinds :
         IF desktopUrl = "missing" \/ mobileUrl = "missing"
         THEN /\ requests' = [requests EXCEPT ![r] = Answered("bad-request", @)]
              /\ downloads' = downloads
         ELSE /\ requests' = [requests EXCEPT
                                 ![r] = Started("desktop", desktopUrl, mobileUrl, @)]
              /\ downloads' = clearDownloadDirectory(downloads)
    /\ UNCHANGED <<pc, styles, internLog, rawData, result, prevCall, colorCall, hexOut, fill,
                   css, heap, input, cleanOptions, optimizedData>>

\* The API answered (or failed): the design file is written, and the image
\* is fetched when the API named one.
DesignFetched(r) ==
    /\ pc = "serve"
    /\ requests[r].status = "running" /\ requests[r].at = "api"
    /\ \E ok \in BOOLEAN, imageUrl \in BOOLEAN :
         IF ~ok
         THEN /\ requests' = [requests EXCEPT ![r] = Answered("error", @)]
              /\ downloads' = downloads
         ELSE /\ downloads' = writeFileSync(downloads, designFile(requests[r].viewport), r)
              /\ requests' = [requests EXCEPT
                                 ![r] = IF imageUrl THEN [@ EXCEPT !.at = "image"] ELSE Fetched(@)]
    /\ UNCHANGED <<pc, styles, internLog, rawData, result, prevCall, colorCall, hexOut, fill,
                   css, heap, input, cleanOptions, optimizedData>>

\* The CDN answered (or failed): the image file is written.
ImageFetched(r) ==
    /\ pc = "serve"
    /\ requests[r].status = "running" /\ requests[r].at = "image"
    /\ \E ok \in BOOLEAN :
         IF ~ok
         THEN /\ requests' = [requests EXCEPT ![r] = Answered("error", @)]
              /\ downloads' = downloads
         ELSE /\ downloads' = writeFileSync(downloads, imageFile(requests[r].viewport), r)
              /\ requests' = [requests EXCEPT ![r] = [@ EXCEPT !.at = "encode"]]
    /\ UNCHANGED <<pc, styles, internLog, rawData, result, prevCall, colorCall, hexOut, fill,
                   css, heap, input, cleanOptions, optimizedData>>

\* The base64 copy of the image arrived (or its fetch failed).
ImageEncoded(r) ==
    /\ pc = "serve"
    /\ requests[r].status = "running" /\ requests[r].at = "encode"
    /\ \E ok \in BOOLEAN :
         requests' = [requests EXCEPT ![r] = IF ok THEN Fetched(@) ELSE Answered("error", @)]
    /\ UNCHANGED <<downloads, pc, styles, internLog, rawData, result, prevCall, colorCall,
                   hexOut, fill, css, heap, input, cleanOptions, optimizedData>>

NextServer ==
    \/ \E r \in RequestIds : Receive(r)
    \/ \E r \in RequestIds : DesignFetched(r)
    \/ \E r \in RequestIds : ImageFetched(r)
    \/ \E r \in RequestIds : ImageEncoded(r)

SpecServer == InitServer /\ [][NextServer]_vars

\* Request r answers with success in this step.
AnswersOk(r) == requests[r].status = "running" /\ requests'[r].status = "ok"

\* The directory holds the file, with the data of request r.
HoldsFileOf(dir, file, r) == file \in DOMAIN dir /\ dir[file] = r

\* C30: when a POST /figmaDesign request answers with success, the
\* figma-downloader directory contains the desktop-design.json and
\* mobile-design.json written for that request, whatever other requests did
\* during its awaits.
C30_DownloadsOfRequest ==
    [][\A r \in RequestIds :
          AnswersOk(r) =>
              /\ HoldsFileOf(downloads', designFile("desktop"), r)
              /\ HoldsFileOf(downloads', designFile("mobile"), r)]_vars

====
